---- MODULE Spec2Model ----
(***************************************************************************)
(* Undo/redo command engine of src/store/command.ts.                       *)
(*                                                                         *)
(* The live Vuex state is one record.  A recorded mutation runs a recipe   *)
(* on an immer draft, turns the immer patches into rfc6902 operations      *)
(* (patchToOperation), applies them to the live state with rfc6902's       *)
(* applyPatch and pushes the command.  UNDO / REDO replay the scripts.     *)
(*                                                                         *)
(* A JavaScript string is modelled as a sequence of atoms ("k", "/", "~",  *)
(* "0", ...), so that joining a patch path with "/" and splitting the      *)
(* pointer again are two different computations.                           *)
(***************************************************************************)
EXTENDS Integers, Sequences, FiniteSets, TLC

\* ------------------------------------------------------------------ bounds
MaxLen == 1
MaxHist == 2
MaxRefs == 4
MaxSeq == 4
MaxSeqHist == 1

\* ------------------------------------------------------------- vocabulary
Vals == {"a", "b"}
Undefined == "undefined"
Null == "null"
PropVals == {"a", Undefined}
PropValsOf(k) == IF Len(k) = 1 THEN PropVals ELSE {"a"}
FilePaths == {Undefined, "p.vvproj"}

\* object keys used by the recipes: a plain key and a key holding a "/"
Keys == { <<"k">>, <<"a", "/", "b">> }

Digits == <<"0", "1", "2", "3", "4", "5", "6", "7">>
NaN == -1

\* String(i) for an array index
IdxStr(i) == <<Digits[i + 1]>>

\* parseInt(token, 10); NaN when the token is not a number
ParseInt(tok) ==
  IF Len(tok) = 1 /\ \E d \in 1..Len(Digits) : Digits[d] = tok[1]
  THEN (CHOOSE d \in 1..Len(Digits) : Digits[d] = tok[1]) - 1
  ELSE NaN

\* Number(value) of a value stored by "replace .../length"
ToNumber(v) == ParseInt(<<v>>)

\* ------------------------------------------------------ sequence helpers
Front(s) == SubSeq(s, 1, Len(s) - 1)
Last(s) == s[Len(s)]

\* Array.prototype.splice(i, 1) and splice(i, 0, v), i zero-based
RemoveAt(s, i) == SubSeq(s, 1, i) \o SubSeq(s, i + 2, Len(s))
InsertAt(s, i, v) == SubSeq(s, 1, i) \o <<v>> \o SubSeq(s, i + 1, Len(s))

Min(a, b) == IF a < b THEN a ELSE b

\* Array.prototype.join("/") over the segments of a patch path
RECURSIVE Join(_)
Join(path) ==
  IF path = <<>> THEN <<>>
  ELSE IF Len(path) = 1 THEN path[1]
  ELSE path[1] \o <<"/">> \o Join(Tail(path))

\* String.prototype.split("/")
RECURSIVE Split(_, _)
Split(str, cur) ==
  IF str = <<>> THEN <<cur>>
  ELSE IF Head(str) = "/" THEN <<cur>> \o Split(Tail(str), <<>>)
  ELSE Split(Tail(str), Append(cur, Head(str)))

\* token.replace(/~1/g, "/") and token.replace(/~0/g, "~")
RECURSIVE ReplacePair(_, _, _)
ReplacePair(tok, second, by) ==
  IF Len(tok) < 2 THEN tok
  ELSE IF tok[1] = "~" /\ tok[2] = second
       THEN <<by>> \o ReplacePair(SubSeq(tok, 3, Len(tok)), second, by)
       ELSE <<tok[1]>> \o ReplacePair(Tail(tok), second, by)

Unescape(tok) == ReplacePair(ReplacePair(tok, "1", "/"), "0", "~")

\* Pointer.fromJSON(path).tokens without the leading empty token
PointerTokens(path) ==
  LET raw == Split(path, <<>>)
  IN [i \in 1..(Len(raw) - 1) |-> Unescape(raw[i + 1])]

\* ------------------------------------------------- rfc6902: applyPatch
\* result of one operation: the value it leaves and "ok", "MissingError"
\* (returned, not thrown) or "throw" (an exception leaves applyPatch)
OpResult(v, res) == [v |-> v, res |-> res]

\* arr.length = n: truncates, or extends with holes (read as undefined)
SetLength(arr, n) ==
  IF n <= Len(arr) THEN SubSeq(arr, 1, n)
  ELSE arr \o [i \in 1..(n - Len(arr)) |-> Undefined]

\* add / remove / replace when endpoint.parent is an array
ArrayOp(arr, o, key) ==
  LET idx == ParseInt(key)
      defined == idx # NaN /\ idx < Len(arr) /\ arr[idx + 1] # Undefined
  IN CASE o.op = "add" ->
            IF key = <<"-">> THEN OpResult(Append(arr, o.value), "ok")
            ELSE OpResult(InsertAt(arr, IF idx = NaN THEN 0
                                        ELSE Min(idx, Len(arr)), o.value), "ok")
       [] o.op = "remove" ->
            IF defined THEN OpResult(RemoveAt(arr, idx), "ok")
            ELSE IF key = <<"length">>
                 THEN OpResult(RemoveAt(arr, 0), "ok")
                 ELSE OpResult(arr, "MissingError")
       [] o.op = "replace" ->
            IF idx # NaN /\ idx >= Len(arr) THEN OpResult(arr, "MissingError")
            ELSE IF idx # NaN
                 THEN OpResult([arr EXCEPT ![idx + 1] = o.value], "ok")
                 ELSE IF key = <<"length">>
                      THEN IF ToNumber(o.value) = NaN
                           THEN OpResult(arr, "throw")
                           ELSE OpResult(SetLength(arr, ToNumber(o.value)), "ok")
                      ELSE OpResult(arr, "ok")
       [] OTHER -> OpResult(arr, "InvalidOperationError")

\* the object with key set to value / with key deleted
SetKey(obj, key, value) ==
  [k \in DOMAIN obj \cup {key} |-> IF k = key THEN value ELSE obj[k]]
DeleteKey(obj, key) == [k \in DOMAIN obj \ {key} |-> obj[k]]

\* obj[key], undefined when the key is not an own property
Get(obj, key) == IF key \in DOMAIN obj THEN obj[key] ELSE Undefined

\* add / remove / replace when endpoint.parent is a plain object
ObjectOp(obj, o, key) ==
  CASE o.op = "add" -> OpResult(SetKey(obj, key, o.value), "ok")
    [] o.op = "remove" ->
         IF Get(obj, key) = Undefined THEN OpResult(obj, "MissingError")
         ELSE OpResult(DeleteKey(obj, key), "ok")
    [] o.op = "replace" ->
         IF Get(obj, key) = Undefined THEN OpResult(obj, "MissingError")
         ELSE OpResult(SetKey(obj, key, o.value), "ok")
    [] OTHER -> OpResult(obj, "InvalidOperationError")

\* add / remove / replace when endpoint.parent is a primitive or undefined:
\* endpoint.value is undefined; add assigns a property of a primitive,
\* which throws a TypeError in strict code
LeafOp(parent, o) ==
  IF o.op = "add" /\ parent # Undefined THEN "throw" ELSE "MissingError"

\* apply(object, operation): Pointer.fromJSON(path).evaluate(object), then
\* the operation.  Only locations under items and props are addressed by
\* the recorded scripts; any other pointer finds no parent.
ApplyOp(st, o) ==
  LET toks == PointerTokens(o.path)
      n == Len(toks)
  IN IF n = 2 /\ toks[1] = <<"items">>
     THEN LET r == ArrayOp(st.items, o, toks[2])
          IN OpResult([st EXCEPT !.items = r.v], r.res)
     ELSE IF n = 2 /\ toks[1] = <<"props">>
     THEN LET r == ObjectOp(st.props, o, toks[2])
          IN OpResult([st EXCEPT !.props = r.v], r.res)
     ELSE IF n = 3 /\ toks[1] = <<"props">>
     THEN OpResult(st, LeafOp(Get(st.props, toks[2]), o))
     ELSE IF n = 3 /\ toks[1] = <<"items">>
     THEN LET idx == ParseInt(toks[2])
          IN OpResult(st, LeafOp(IF idx # NaN /\ idx < Len(st.items)
                                 THEN st.items[idx + 1] ELSE Undefined, o))
     ELSE OpResult(st, "MissingError")

\* applyPatch(object, patch): the operations in order on the same object;
\* the per-operation errors are returned (command.ts drops them)
RECURSIVE applyPatch(_, _)
applyPatch(st, ops) ==
  IF ops = <<>> THEN [st |-> st, threw |-> FALSE]
  ELSE LET r == ApplyOp(st, Head(ops))
       IN IF r.res = "throw" THEN [st |-> r.v, threw |-> TRUE]
          ELSE applyPatch(r.v, Tail(ops))

\* what applyPatch returns: one entry per operation, "ok" for null and the
\* error's name otherwise (an exception ends the list)
RECURSIVE applyPatchResults(_, _)
applyPatchResults(st, ops) ==
  IF ops = <<>> THEN <<>>
  ELSE LET r == ApplyOp(st, Head(ops))
       IN IF r.res = "throw" THEN <<"throw">>
          ELSE <<r.res>> \o applyPatchResults(r.v, Tail(ops))

\* some operation of the script ops fails (or throws) when applied to st
Failed(st, ops) ==
  \E i \in DOMAIN applyPatchResults(st, ops) : applyPatchResults(st, ops)[i] # "ok"

\* ---------------------------------------------------------------- recipes
\* A recipe is a short program over the draft: a sequence of statements,
\* optionally followed by a throw.
Stmt(type, key, idx, val) == [type |-> type, key |-> key, idx |-> idx, val |-> val]
Recipe(stmts, throws) == [stmts |-> stmts, throws |-> throws]

\* assigned_ of an object draft, in insertion order: <<key, TRUE>> for a
\* key that was set, <<key, FALSE>> for a key that was deleted
Mark(assigned, key, flag) ==
  IF \E i \in 1..Len(assigned) : assigned[i][1] = key
  THEN [i \in 1..Len(assigned) |->
          IF assigned[i][1] = key THEN <<key, flag>> ELSE assigned[i]]
  ELSE Append(assigned, <<key, flag>>)
Unmark(assigned, key) == SelectSeq(assigned, LAMBDA e : e[1] # key)

\* one statement on the draft d = [items, props, assigned]; base is the
\* state the draft was created from (immer's proxy traps)
ExecStmt(d, base, s) ==
  CASE s.type = "push" -> [d EXCEPT !.items = Append(@, s.val)]
    [] s.type = "splice" -> [d EXCEPT !.items = RemoveAt(@, s.idx)]
    [] s.type = "insert" -> [d EXCEPT !.items = InsertAt(@, s.idx, s.val)]
    [] s.type = "setItem" -> [d EXCEPT !.items[s.idx + 1] = s.val]
    [] s.type = "setProp" ->
         IF Get(d.props, s.key) = s.val
            /\ (s.val # Undefined \/ s.key \in DOMAIN d.props)
         THEN d
         ELSE [d EXCEPT !.props = SetKey(@, s.key, s.val),
                        !.assigned = Mark(@, s.key, TRUE)]
    [] s.type = "deleteProp" ->
         [d EXCEPT !.props = DeleteKey(@, s.key),
                   !.assigned = IF s.key \in DOMAIN base.props
                                THEN Mark(@, s.key, FALSE)
                                ELSE Unmark(@, s.key)]
    [] OTHER -> d

RECURSIVE ExecStmts(_, _, _)
ExecStmts(d, base, stmts) ==
  IF stmts = <<>> THEN d
  ELSE ExecStmts(ExecStmt(d, base, Head(stmts)), base, Tail(stmts))

\* ------------------------------------------- immer: produceWithPatches
Patch(op, path, value) == [op |-> op, path |-> path, value |-> value]

\* immer's generateArrayPatches with base never longer than copy: replace
\* for the changed common indices, add for the new indices; the other
\* direction shrinks the array, by its length or by removes from the end
\* variant that removes the added indices from the lowest up
ArrayPatchesGrow_RemovesAscending(base, copy, basePath, shrink) ==
  LET common == {i \in 0..(Len(base) - 1) : copy[i + 1] # base[i + 1]}
      Repl(from) ==
        LET RECURSIVE R(_)
            R(i) == IF i >= Len(base) THEN <<>>
                    ELSE (IF i \in common
                          THEN <<Patch("replace", basePath \o <<IdxStr(i)>>,
                                       from[i + 1])>>
                          ELSE <<>>) \o R(i + 1)
        IN R(0)
      adds == [j \in 1..(Len(copy) - Len(base)) |->
                 Patch("add", basePath \o <<IdxStr(Len(base) + j - 1)>>,
                       copy[Len(base) + j])]
      back ==
        IF Len(base) = Len(copy) THEN <<>>
        ELSE IF shrink = "length"
        THEN <<Patch("replace", basePath \o <<<<"length">>>>,
                     Digits[Len(base) + 1])>>
        ELSE [j \in 1..(Len(copy) - Len(base)) |->
                Patch("remove", basePath \o <<IdxStr(Len(base) + j - 1)>>,
                      Undefined)]
  IN [grow |-> Repl(copy) \o adds, back |-> Repl(base) \o back]

ArrayPatchesGrow(base, copy, basePath, shrink) ==
  LET common == {i \in 0..(Len(base) - 1) : copy[i + 1] # base[i + 1]}
      Repl(from) ==
        LET RECURSIVE R(_)
            R(i) == IF i >= Len(base) THEN <<>>
                    ELSE (IF i \in common
                          THEN <<Patch("replace", basePath \o <<IdxStr(i)>>,
                                       from[i + 1])>>
                          ELSE <<>>) \o R(i + 1)
        IN R(0)
      adds == [j \in 1..(Len(copy) - Len(base)) |->
                 Patch("add", basePath \o <<IdxStr(Len(base) + j - 1)>>,
                       copy[Len(base) + j])]
      back ==
        IF Len(base) = Len(copy) THEN <<>>
        ELSE IF shrink = "length"
        THEN <<Patch("replace", basePath \o <<<<"length">>>>,
                     Digits[Len(base) + 1])>>
        ELSE [j \in 1..(Len(copy) - Len(base)) |->
                Patch("remove", basePath \o <<IdxStr(Len(copy) - j)>>, Undefined)]
  IN [grow |-> Repl(copy) \o adds, back |-> Repl(base) \o back]

generateArrayPatches(base, copy, basePath, shrink) ==
  IF Len(copy) < Len(base)
  THEN LET g == ArrayPatchesGrow(copy, base, basePath, shrink)
       IN [patches |-> g.back, inversePatches |-> g.grow]
  ELSE LET g == ArrayPatchesGrow(base, copy, basePath, shrink)
       IN [patches |-> g.grow, inversePatches |-> g.back]

\* immer's generatePatchesFromAssigned for a plain object
RECURSIVE generatePatchesFromAssigned(_, _, _, _)
generatePatchesFromAssigned(base, copy, assigned, basePath) ==
  IF assigned = <<>> THEN [patches |-> <<>>, inversePatches |-> <<>>]
  ELSE LET key == Head(assigned)[1]
           origValue == Get(base, key)
           value == Get(copy, key)
           op == IF ~Head(assigned)[2] THEN "remove"
                 ELSE IF key \in DOMAIN base THEN "replace" ELSE "add"
           path == basePath \o <<key>>
           rest == generatePatchesFromAssigned(base, copy, Tail(assigned), basePath)
       IN IF origValue = value /\ op = "replace" THEN rest
          ELSE [patches |->
                  <<Patch(op, path, IF op = "remove" THEN Undefined ELSE value)>>
                  \o rest.patches,
                inversePatches |->
                  <<IF op = "add" THEN Patch("remove", path, Undefined)
                    ELSE IF op = "remove" THEN Patch("add", path, origValue)
                    ELSE Patch("replace", path, origValue)>>
                  \o rest.inversePatches]

\* immer.produceWithPatches(state, draft => recipe(draft, payload)): the
\* recipe runs on a draft, the base is never written; a throwing recipe
\* discards the draft
produceWithPatches(st, recipe, shrink) ==
  LET d == ExecStmts([items |-> st.items, props |-> st.props, assigned |-> <<>>],
                     st, recipe.stmts)
      a == generateArrayPatches(st.items, d.items, <<<<"items">>>>, shrink)
      o == generatePatchesFromAssigned(st.props, d.props, d.assigned, <<<<"props">>>>)
  IN [threw |-> recipe.throws,
      next |-> [st EXCEPT !.items = d.items, !.props = d.props],
      patches |-> a.patches \o o.patches,
      inversePatches |-> a.inversePatches \o o.inversePatches]

\* ------------------------------------------------------------ command.ts
Command(doOperation, undoOperation) ==
  [doOperation |-> doOperation, undoOperation |-> undoOperation]

patchToOperation(patch) ==
  [op |-> patch.op, path |-> <<"/">> \o Join(patch.path), value |-> patch.value]

recordOperations(recipe, st, shrink) ==
  LET r == produceWithPatches(st, recipe, shrink)
  IN [threw |-> r.threw,
      command |->
        Command([i \in 1..Len(r.patches) |-> patchToOperation(r.patches[i])],
                [i \in 1..Len(r.inversePatches) |->
                   patchToOperation(r.inversePatches[i])])]

\* outcome of a mutation: the state it leaves and the error it raised
Outcome(st, err) == [st |-> st, err |-> err]

\* variants of createCommandMutation with a slip: the redo stack is kept,
\* the command is put first, the redo stack is cleared before recording
createCommandMutation_KeepRedo(st, recipe, shrink) ==
  LET rec == recordOperations(recipe, st, shrink)
      ap == applyPatch(st, rec.command.doOperation)
  IN IF rec.threw THEN Outcome(st, "RecipeError")
     ELSE IF ap.threw THEN Outcome(ap.st, "TypeError")
     ELSE Outcome([ap.st EXCEPT !.undoCommands = Append(@, rec.command)], "none")

createCommandMutation_Unshift(st, recipe, shrink) ==
  LET rec == recordOperations(recipe, st, shrink)
      ap == applyPatch(st, rec.command.doOperation)
  IN IF rec.threw THEN Outcome(st, "RecipeError")
     ELSE IF ap.threw THEN Outcome(ap.st, "TypeError")
     ELSE Outcome([ap.st EXCEPT !.undoCommands = <<rec.command>> \o @,
                                !.redoCommands = <<>>], "none")

createCommandMutation_ClearFirst(st, recipe, shrink) ==
  LET cleared == [st EXCEPT !.redoCommands = <<>>]
      rec == recordOperations(recipe, cleared, shrink)
      ap == applyPatch(cleared, rec.command.doOperation)
  IN IF rec.threw THEN Outcome(cleared, "RecipeError")
     ELSE IF ap.threw THEN Outcome(ap.st, "TypeError")
     ELSE Outcome([ap.st EXCEPT !.undoCommands = Append(@, rec.command)], "none")

\* variant of createCommandMutation that records nothing for an empty diff
createCommandMutation_SkipEmpty(st, recipe, shrink) ==
  LET rec == recordOperations(recipe, st, shrink)
      ap == applyPatch(st, rec.command.doOperation)
  IN IF rec.threw THEN Outcome(st, "RecipeError")
     ELSE IF ap.threw THEN Outcome(ap.st, "TypeError")
     ELSE IF rec.command.doOperation = <<>> THEN Outcome(ap.st, "none")
     ELSE Outcome([ap.st EXCEPT !.undoCommands = Append(@, rec.command),
                                !.redoCommands = <<>>], "none")

createCommandMutation(st, recipe, shrink) ==
  LET rec == recordOperations(recipe, st, shrink)
      ap == applyPatch(st, rec.command.doOperation)
  IN IF rec.threw THEN Outcome(st, "RecipeError")
     ELSE IF ap.threw THEN Outcome(ap.st, "TypeError")
     ELSE Outcome([ap.st EXCEPT !.undoCommands = Append(@, rec.command),
                                !.redoCommands = <<>>], "none")

CAN_UNDO(st) == Len(st.undoCommands) > 0
\* variant of CAN_REDO that reads the undo stack
CAN_REDO_ReadsUndo(st) == Len(st.undoCommands) > 0

CAN_REDO(st) == Len(st.redoCommands) > 0

\* variants of UNDO with a slip: the doOperation script is replayed; the
\* popped command is not checked against null
UNDO_AppliesDo(st) ==
  IF st.undoCommands = <<>> THEN Outcome(st, "none")
  ELSE LET command == Last(st.undoCommands)
           moved == [st EXCEPT !.undoCommands = Front(@),
                               !.redoCommands = Append(@, command)]
           ap == applyPatch(moved, command.doOperation)
       IN Outcome(ap.st, IF ap.threw THEN "TypeError" ELSE "none")

UNDO_NoNullCheck(st) ==
  IF st.undoCommands = <<>>
  THEN Outcome([st EXCEPT !.redoCommands = Append(@, Command(<<>>, <<>>))],
               "TypeError")
  ELSE LET command == Last(st.undoCommands)
           moved == [st EXCEPT !.undoCommands = Front(@),
                               !.redoCommands = Append(@, command)]
           ap == applyPatch(moved, command.undoOperation)
       IN Outcome(ap.st, IF ap.threw THEN "TypeError" ELSE "none")

\* variant of UNDO that takes the script back when one of its operations
\* fails
UNDO_Rollback(st) ==
  IF st.undoCommands = <<>> THEN Outcome(st, "none")
  ELSE LET command == Last(st.undoCommands)
           moved == [st EXCEPT !.undoCommands = Front(@),
                               !.redoCommands = Append(@, command)]
           ap == applyPatch(moved, command.undoOperation)
       IN IF Failed(moved, command.undoOperation) THEN Outcome(moved, "none")
          ELSE Outcome(ap.st, IF ap.threw THEN "TypeError" ELSE "none")

UNDO(st) ==
  IF st.undoCommands = <<>> THEN Outcome(st, "none")
  ELSE LET command == Last(st.undoCommands)
           moved == [st EXCEPT !.undoCommands = Front(@),
                               !.redoCommands = Append(@, command)]
           ap == applyPatch(moved, command.undoOperation)
       IN Outcome(ap.st, IF ap.threw THEN "TypeError" ELSE "none")

\* variant of REDO that replays the undoOperation script
REDO_AppliesUndo(st) ==
  IF st.redoCommands = <<>> THEN Outcome(st, "none")
  ELSE LET command == Last(st.redoCommands)
           moved == [st EXCEPT !.redoCommands = Front(@),
                               !.undoCommands = Append(@, command)]
           ap == applyPatch(moved, command.undoOperation)
       IN Outcome(ap.st, IF ap.threw THEN "TypeError" ELSE "none")

\* variant of REDO that puts the command first on undoCommands
REDO_Unshift(st) ==
  IF st.redoCommands = <<>> THEN Outcome(st, "none")
  ELSE LET command == Last(st.redoCommands)
           moved == [st EXCEPT !.redoCommands = Front(@),
                               !.undoCommands = <<command>> \o @]
           ap == applyPatch(moved, command.doOperation)
       IN Outcome(ap.st, IF ap.threw THEN "TypeError" ELSE "none")

REDO(st) ==
  IF st.redoCommands = <<>> THEN Outcome(st, "none")
  ELSE LET command == Last(st.redoCommands)
           moved == [st EXCEPT !.redoCommands = Front(@),
                               !.undoCommands = Append(@, command)]
           ap == applyPatch(moved, command.doOperation)
       IN Outcome(ap.st, IF ap.threw THEN "TypeError" ELSE "none")

\* variant of CLEAR_COMMANDS that forgets the undo stack
CLEAR_COMMANDS_OnlyRedo(st) ==
  Outcome([st EXCEPT !.redoCommands = <<>>], "none")

CLEAR_COMMANDS(st) ==
  Outcome([st EXCEPT !.redoCommands = <<>>, !.undoCommands = <<>>], "none")

\* project store: a mutation that is not recorded
\* variant of SET_PROJECT_FILEPATH that ends like a recorded mutation
SET_PROJECT_FILEPATH_ClearsRedo(st, filePath) ==
  Outcome([st EXCEPT !.projectFilePath = filePath, !.redoCommands = <<>>], "none")

SET_PROJECT_FILEPATH(st, filePath) ==
  Outcome([st EXCEPT !.projectFilePath = filePath], "none")

SET_SAVED_LAST_COMMAND_UNIX_MILLISEC(st, unixMillisec) ==
  Outcome([st EXCEPT !.savedLastCommandUnixMillisec = unixMillisec], "none")

\* IS_EDITED: the getter LAST_COMMAND_UNIX_MILLISEC (its value is last)
\* differs from the saved one
IS_EDITED(st, last) == last # st.savedLastCommandUnixMillisec

\* !filePath
Falsy(filePath) == filePath \in {Undefined, ""}

\* what an action of the project store leaves: the state, the value it
\* returns, whether the error dialog was shown, the path it wrote, the
\* items it registered
NoFile == "nofile"
NoItems == <<"noitems">>
Result(st, value, errorDialog, wrote, registered) ==
  [st |-> st, value |-> value, errorDialog |-> errorDialog,
   wrote |-> wrote, registered |-> registered, threw |-> FALSE]

\* the catch block of an action: the error is logged, the error dialog is
\* shown, the action returns false
Caught(st, wrote, registered) ==
  [Result(st, "false", TRUE, wrote, registered) EXCEPT !.threw = TRUE]

\* variant of SAVE_PROJECT_FILE that commits the path before writing
SAVE_PROJECT_FILE_CommitsFirst(st, last, overwrite, saveDialog, writeFails) ==
  LET asks == ~overwrite \/ Falsy(st.projectFilePath)
      filePath == IF asks THEN saveDialog ELSE st.projectFilePath
      set == SET_PROJECT_FILEPATH(st, filePath).st
  IN IF asks /\ saveDialog = Undefined
     THEN Result(st, "false", FALSE, NoFile, NoItems)
     ELSE IF writeFails
     THEN Caught(set, NoFile, NoItems)
     ELSE Result(SET_SAVED_LAST_COMMAND_UNIX_MILLISEC(set, last).st,
                 "true", FALSE, filePath, NoItems)

\* SAVE_PROJECT_FILE: saveDialog is what showProjectSaveDialog returns,
\* writeFails says that a step of the try block (up to writeFile) throws
SAVE_PROJECT_FILE(st, last, overwrite, saveDialog, writeFails) ==
  LET asks == ~overwrite \/ Falsy(st.projectFilePath)
      filePath == IF asks THEN saveDialog ELSE st.projectFilePath
  IN IF asks /\ saveDialog = Undefined
     THEN Result(st, "false", FALSE, NoFile, NoItems)
     ELSE IF writeFails
     THEN Caught(st, NoFile, NoItems)
     ELSE Result(SET_SAVED_LAST_COMMAND_UNIX_MILLISEC(
                   SET_PROJECT_FILEPATH(st, filePath).st, last).st,
                 "true", FALSE, filePath, NoItems)

\* variant of SAVE_OR_DISCARD_PROJECT_FILE that ignores the result of saving
SAVE_OR_DISCARD_PROJECT_FILE_IgnoresSaved(st, last, question, saveDialog, writeFails) ==
  LET save == SAVE_PROJECT_FILE(st, last, TRUE, saveDialog, writeFails)
  IN IF question = 0 THEN [save EXCEPT !.value = "saved", !.threw = FALSE]
     ELSE IF question = 1 THEN Result(st, "discarded", FALSE, NoFile, NoItems)
     ELSE Result(st, "canceled", FALSE, NoFile, NoItems)

\* SAVE_OR_DISCARD_PROJECT_FILE: question is the button of showQuestionDialog
SAVE_OR_DISCARD_PROJECT_FILE(st, last, question, saveDialog, writeFails) ==
  LET save == SAVE_PROJECT_FILE(st, last, TRUE, saveDialog, writeFails)
  IN IF question = 0
     THEN [save EXCEPT !.value = IF save.value = "true" THEN "saved" ELSE "canceled",
                       !.threw = FALSE]
     ELSE IF question = 1 THEN Result(st, "discarded", FALSE, NoFile, NoItems)
     ELSE Result(st, "canceled", FALSE, NoFile, NoItems)

\* REMOVE_ALL_AUDIO_ITEM and REGISTER_AUDIO_ITEM (after the last one)
REMOVE_ALL_AUDIO_ITEM(st) == [st EXCEPT !.items = <<>>]
REGISTER_AUDIO_ITEM(st, audioItem) == [st EXCEPT !.items = Append(@, audioItem)]

RECURSIVE RegisterAll(_, _)
RegisterAll(st, audioItems) ==
  IF audioItems = <<>> THEN st
  ELSE RegisterAll(REGISTER_AUDIO_ITEM(st, Head(audioItems)), Tail(audioItems))

\* a project file after the migrations: audioKeys and audioItems; an audio
\* item is a record with text and, when it has them, voice and the voice's
\* engineId, speakerId and styleId.  The model's items hold the text of
\* each audio item.
ProjectData(audioKeys, audioItems) ==
  [audioKeys |-> audioKeys, audioItems |-> audioItems]

\* audioItemSchema: text and voice with its three ids are required
audioItemSchema(audioItem) ==
  /\ "text" \in DOMAIN audioItem
  /\ "voice" \in DOMAIN audioItem
  /\ {"engineId", "speakerId", "styleId"} \subseteq DOMAIN audioItem.voice

\* projectSchema.parse(projectData) throws unless every audio item fits
projectSchema(projectData) ==
  \A audioKey \in DOMAIN projectData.audioItems :
    audioItemSchema(projectData.audioItems[audioKey])

\* audioKeys.every((audioKey) => audioKey in audioItems)
EveryKeyListed(projectData) ==
  \A i \in DOMAIN projectData.audioKeys :
    projectData.audioKeys[i] \in DOMAIN projectData.audioItems

\* audioKeys.every((audioKey) => audioItems[audioKey]?.voice != undefined)
EveryVoice(projectData) ==
  \A i \in DOMAIN projectData.audioKeys :
    "voice" \in DOMAIN projectData.audioItems[projectData.audioKeys[i]]

\* audioKeys.every((audioKey) => audioItems[audioKey]?.voice[id] != undefined)
EveryVoiceId(projectData, id) ==
  \A i \in DOMAIN projectData.audioKeys :
    id \in DOMAIN projectData.audioItems[projectData.audioKeys[i]].voice

\* variant of the validation check that does not look at styleId
ValidationError_SkipsStyleId(projectData) ==
  IF ~\A audioKey \in DOMAIN projectData.audioItems :
        /\ "text" \in DOMAIN projectData.audioItems[audioKey]
        /\ "voice" \in DOMAIN projectData.audioItems[audioKey]
        /\ {"engineId", "speakerId"}
             \subseteq DOMAIN projectData.audioItems[audioKey].voice
  THEN "ZodError"
  ELSE IF ~EveryKeyListed(projectData) THEN "audioKey"
  ELSE IF ~EveryVoice(projectData) THEN "voice"
  ELSE IF ~EveryVoiceId(projectData, "engineId") THEN "engineId"
  ELSE IF ~EveryVoiceId(projectData, "speakerId") THEN "speakerId"
  ELSE "none"

\* the validation check of LOAD_PROJECT_FILE: the error it throws, or "none"
ValidationError(projectData) ==
  IF ~projectSchema(projectData) THEN "ZodError"
  ELSE IF ~EveryKeyListed(projectData) THEN "audioKey"
  ELSE IF ~EveryVoice(projectData) THEN "voice"
  ELSE IF ~EveryVoiceId(projectData, "engineId") THEN "engineId"
  ELSE IF ~EveryVoiceId(projectData, "speakerId") THEN "speakerId"
  ELSE IF ~EveryVoiceId(projectData, "styleId") THEN "styleId"
  ELSE "none"

\* the audio items the register loop walks through: audioItems[audioKey]
\* for each audioKey of audioKeys
FileItems(projectData) ==
  [i \in DOMAIN projectData.audioKeys |->
     projectData.audioItems[projectData.audioKeys[i]].text]

\* LOAD_PROJECT_FILE.  env is what the outside answers: loadDialog (what
\* showProjectLoadDialog returns: undefined, "empty" for [], or a path),
\* file (the project data read from the file), throwAt (the step that
\* throws: "read" for reading, parsing and migrating, "register", or
\* "none"), registered (how many items are registered before
\* REGISTER_AUDIO_ITEM throws), and the answers for
\* SAVE_OR_DISCARD_PROJECT_FILE (question, saveDialog, writeFails)
\* the result r of an action, with the step at which the action ended
Ended(step, r) == [step |-> step] @@ r

\* variant of LoadCommits that leaves the commands in place
LoadCommits_KeepsCommands(st, filePath) ==
  SET_SAVED_LAST_COMMAND_UNIX_MILLISEC(
    SET_PROJECT_FILEPATH(st, filePath).st, Null).st

\* the three commits that end the try block
LoadCommits(st, filePath) ==
  CLEAR_COMMANDS(
    SET_SAVED_LAST_COMMAND_UNIX_MILLISEC(
      SET_PROJECT_FILEPATH(st, filePath).st, Null).st).st

\* variant of LOAD_PROJECT_FILE that removes the items before it asks
LOAD_PROJECT_FILE_RemovesFirst(st, last, filePathArg, confirm, env) ==
  LET filePath == IF Falsy(filePathArg) THEN env.loadDialog ELSE filePathArg
      sd == SAVE_OR_DISCARD_PROJECT_FILE(st, last, env.question,
                                         env.saveDialog, env.writeFails)
      asks == confirm /\ IS_EDITED(st, last)
      st1 == IF asks THEN sd.st ELSE st
      shown == asks /\ sd.errorDialog
      wrote == IF asks THEN sd.wrote ELSE NoFile
      removed == REMOVE_ALL_AUDIO_ITEM(st1)
      audioItems == FileItems(env.file)
  IN IF Falsy(filePathArg) /\ env.loadDialog \in {Undefined, "empty"}
     THEN Ended("dialog", Result(st, "false", FALSE, NoFile, NoItems))
     ELSE IF env.throwAt = "read"
     THEN Ended("read", Caught(st, NoFile, NoItems))
     ELSE IF ValidationError(env.file) # "none"
     THEN Ended("validation", Caught(st, NoFile, NoItems))
     ELSE IF asks /\ sd.value = "canceled"
     THEN Ended("canceled", Result(removed, "false", shown, wrote, NoItems))
     ELSE IF env.throwAt = "register" /\ env.registered < Len(audioItems)
     THEN Ended("register",
                Caught(RegisterAll(removed, SubSeq(audioItems, 1, env.registered)),
                       wrote, SubSeq(audioItems, 1, env.registered)))
     ELSE Ended("done",
                Result(LoadCommits(RegisterAll(removed, audioItems), filePath),
                       "true", shown, wrote, audioItems))

LOAD_PROJECT_FILE(st, last, filePathArg, confirm, env) ==
  LET filePath == IF Falsy(filePathArg) THEN env.loadDialog ELSE filePathArg
      sd == SAVE_OR_DISCARD_PROJECT_FILE(st, last, env.question,
                                         env.saveDialog, env.writeFails)
      asks == confirm /\ IS_EDITED(st, last)
      st1 == IF asks THEN sd.st ELSE st
      shown == asks /\ sd.errorDialog
      wrote == IF asks THEN sd.wrote ELSE NoFile
      removed == REMOVE_ALL_AUDIO_ITEM(st1)
      audioItems == FileItems(env.file)
  IN IF Falsy(filePathArg) /\ env.loadDialog \in {Undefined, "empty"}
     THEN Ended("dialog", Result(st, "false", FALSE, NoFile, NoItems))
     ELSE IF env.throwAt = "read"
     THEN Ended("read", Caught(st, NoFile, NoItems))
     ELSE IF ValidationError(env.file) # "none"
     THEN Ended("validation", Caught(st, NoFile, NoItems))
     ELSE IF asks /\ sd.value = "canceled"
     THEN Ended("canceled", Result(st1, "false", shown, wrote, NoItems))
     ELSE IF env.throwAt = "register" /\ env.registered < Len(audioItems)
     THEN Ended("register",
                Caught(RegisterAll(removed, SubSeq(audioItems, 1, env.registered)),
                       wrote, SubSeq(audioItems, 1, env.registered)))
     ELSE Ended("done",
                Result(LoadCommits(RegisterAll(removed, audioItems), filePath),
                       "true", shown, wrote, audioItems))

\* an action without a catch block whose step throws: the promise is
\* rejected
Rejected(st, wrote, registered) ==
  [Result(st, "rejected", FALSE, wrote, registered) EXCEPT !.threw = TRUE]

\* variant of CREATE_NEW_PROJECT that leaves the commands in place
CREATE_NEW_PROJECT_SkipsClear(st, last, confirm, env) ==
  LET sd == SAVE_OR_DISCARD_PROJECT_FILE(st, last, env.question,
                                         env.saveDialog, env.writeFails)
      asks == confirm /\ IS_EDITED(st, last)
      st1 == IF asks THEN sd.st ELSE st
      shown == asks /\ sd.errorDialog
      wrote == IF asks THEN sd.wrote ELSE NoFile
      removed == REMOVE_ALL_AUDIO_ITEM(st1)
      registered == REGISTER_AUDIO_ITEM(removed, env.audioItem)
  IN IF asks /\ sd.value = "canceled"
     THEN Ended("canceled", Result(st1, Undefined, shown, wrote, NoItems))
     ELSE IF env.throwAt = "register"
     THEN Ended("register", Rejected(removed, wrote, <<>>))
     ELSE Ended("done", Result(SET_SAVED_LAST_COMMAND_UNIX_MILLISEC(
                   SET_PROJECT_FILEPATH(registered, Undefined).st, Null).st,
                 Undefined, shown, wrote, <<env.audioItem>>))

\* CREATE_NEW_PROJECT.  env is what the outside answers: the answers for
\* SAVE_OR_DISCARD_PROJECT_FILE (question, saveDialog, writeFails), the
\* item GENERATE_AUDIO_ITEM returns (audioItem) and the step that throws
\* ("register" or "none")
CREATE_NEW_PROJECT(st, last, confirm, env) ==
  LET sd == SAVE_OR_DISCARD_PROJECT_FILE(st, last, env.question,
                                         env.saveDialog, env.writeFails)
      asks == confirm /\ IS_EDITED(st, last)
      st1 == IF asks THEN sd.st ELSE st
      shown == asks /\ sd.errorDialog
      wrote == IF asks THEN sd.wrote ELSE NoFile
      removed == REMOVE_ALL_AUDIO_ITEM(st1)
      registered == REGISTER_AUDIO_ITEM(removed, env.audioItem)
  IN IF asks /\ sd.value = "canceled"
     THEN Ended("canceled", Result(st1, Undefined, shown, wrote, NoItems))
     ELSE IF env.throwAt = "register"
     THEN Ended("register", Rejected(removed, wrote, <<>>))
     ELSE Ended("done", Result(CLEAR_COMMANDS(
                   SET_SAVED_LAST_COMMAND_UNIX_MILLISEC(
                     SET_PROJECT_FILEPATH(registered, Undefined).st, Null).st).st,
                 Undefined, shown, wrote, <<env.audioItem>>))

\* useStoreAsState: defMut(mutation).act(payload) runs the mutation on the
\* store's state inside store.$patch; mutated is what the mutation leaves
defMut_act(mutated) == Outcome(mutated.st, mutated.err)

\* ------------------------------------------- objects held by reference
\* A state whose items are objects {name: ...}.  An object is a reference
\* into the heap; two holders of the same reference see each other's
\* writes.  m = [heap, items, undoCommands, redoCommands].
Refs == 1..MaxRefs
Free == "free"
Names == {"x", "y"}

FreeRefs(heap) == {r \in Refs : heap[r] = Free}
NewRef(heap) == CHOOSE r \in FreeRefs(heap) : \A q \in FreeRefs(heap) : r <= q

\* the operation carries an object (add or replace of a whole item)
HoldsObject(o) ==
  /\ o.op \in {"add", "replace"}
  /\ Len(PointerTokens(o.path)) = 2
  /\ PointerTokens(o.path)[2] # <<"length">>

\* rfc6902 on the live objects: add stores clone(operation.value), replace
\* stores operation.value itself, a pointer into an item writes the item
ApplyRefOp(m, o) ==
  LET toks == PointerTokens(o.path)
      n == Len(toks)
      idx == ParseInt(toks[2])
      len == Len(m.items)
      r == NewRef(m.heap)
  IN IF n = 2 /\ toks[1] = <<"items">>
     THEN CASE o.op = "add" /\ idx # NaN ->
                 OpResult([m EXCEPT !.heap[r] = m.heap[o.value],
                                    !.items = InsertAt(@, Min(idx, len), r)], "ok")
            [] o.op = "remove" /\ idx # NaN /\ idx < len ->
                 OpResult([m EXCEPT !.items = RemoveAt(@, idx)], "ok")
            [] o.op = "replace" /\ idx # NaN /\ idx < len ->
                 OpResult([m EXCEPT !.items[idx + 1] = o.value], "ok")
            [] o.op = "replace" /\ toks[2] = <<"length">> ->
                 OpResult([m EXCEPT !.items = SetLength(@, ToNumber(o.value))], "ok")
            [] OTHER -> OpResult(m, "MissingError")
     ELSE IF n = 3 /\ toks[1] = <<"items">> /\ toks[3] = <<"name">>
             /\ idx # NaN /\ idx < len /\ o.op = "replace"
     THEN OpResult([m EXCEPT !.heap[m.items[idx + 1]] = o.value], "ok")
     ELSE OpResult(m, "MissingError")

RECURSIVE applyRefPatch(_, _)
applyRefPatch(m, ops) ==
  IF ops = <<>> THEN m ELSE applyRefPatch(ApplyRefOp(m, Head(ops)).v, Tail(ops))

\* the payload object {name: val} of a recipe, created by the caller
WithPayload(m, s) ==
  IF s.type = "setName" THEN m ELSE [m EXCEPT !.heap[NewRef(m.heap)] = s.val]

\* immer on one statement: draft.items[i] = payload, draft.items.push(payload)
\* (array patches, the values are the objects themselves) and
\* draft.items[i].name = val (a patch of the child draft)
RefPatches(m, s, shrink) ==
  LET X == NewRef(m.heap)
      path == <<<<"items">>, IdxStr(s.idx), <<"name">>>>
      old == m.heap[m.items[s.idx + 1]]
  IN CASE s.type = "replaceItem" ->
            generateArrayPatches(m.items, [m.items EXCEPT ![s.idx + 1] = X],
                                 <<<<"items">>>>, shrink)
       [] s.type = "pushItem" ->
            generateArrayPatches(m.items, Append(m.items, X),
                                 <<<<"items">>>>, shrink)
       [] OTHER ->
            IF old = s.val THEN [patches |-> <<>>, inversePatches |-> <<>>]
            ELSE [patches |-> <<Patch("replace", path, s.val)>>,
                  inversePatches |-> <<Patch("replace", path, old)>>]

\* what the scripts of a command carry, objects read through the heap
Carried(command, heap) ==
  LET Deep(ops) == [i \in DOMAIN ops |->
                      IF HoldsObject(ops[i]) THEN heap[ops[i].value]
                      ELSE ops[i].value]
  IN <<Deep(command.doOperation), Deep(command.undoOperation)>>

\* createCommandMutation, UNDO and REDO on the live objects; created is a
\* history field: what the command carried when it was recorded
createCommandMutationRef(m, s, shrink) ==
  LET p == RefPatches(m, s, shrink)
      m1 == WithPayload(m, s)
      command == Command([i \in DOMAIN p.patches |-> patchToOperation(p.patches[i])],
                         [i \in DOMAIN p.inversePatches |->
                            patchToOperation(p.inversePatches[i])])
      m2 == applyRefPatch(m1, command.doOperation)
  IN [m2 EXCEPT !.undoCommands =
                   Append(@, [doOperation |-> command.doOperation,
                              undoOperation |-> command.undoOperation,
                              created |-> Carried(command, m1.heap)]),
                !.redoCommands = <<>>]

UNDORef(m) ==
  IF m.undoCommands = <<>> THEN m
  ELSE LET command == Last(m.undoCommands)
       IN applyRefPatch([m EXCEPT !.undoCommands = Front(@),
                                  !.redoCommands = Append(@, command)],
                        command.undoOperation)

REDORef(m) ==
  IF m.redoCommands = <<>> THEN m
  ELSE LET command == Last(m.redoCommands)
       IN applyRefPatch([m EXCEPT !.redoCommands = Front(@),
                                  !.undoCommands = Append(@, command)],
                        command.doOperation)

\* ----------------------------------------------------------- preset store
\* a voice is engineId, speakerId, styleId; VoiceId(voice) is the string
\* `${engineId}:${speakerId}:${styleId}`
Voices == { [engineId |-> "e", speakerId |-> "s", styleId |-> "0"],
            [engineId |-> "e", speakerId |-> "s", styleId |-> "1"] }

VoiceId(voice) ==
  <<voice.engineId, ":", voice.speakerId, ":", voice.styleId>>

PresetKeys == {"p1", "p2", "p3"}

\* the store after defineStore("preset/state")
usePresetState ==
  [presetKeys |-> <<>>, presetItems |-> [k \in {} |-> Undefined],
   defaultPresetKeys |-> [id \in {} |-> Undefined]]

\* object[key] of a record: undefined for a key the object does not have
Lookup(object, key) ==
  IF key \in DOMAIN object THEN object[key] ELSE Undefined

\* Object.values(object)
ObjectValues(object) == {object[key] : key \in DOMAIN object}

determineNextPresetKey_KeepsCandidate(defaultPresetKeys, experimentalSetting, inheritAudioInfo, voice, presetKeyCandidate, operation) ==
  LET defaultPresetKeyForCurrentVoice ==
        Lookup(defaultPresetKeys, VoiceId(voice))
  IN CASE operation = "generate" ->
            [nextPresetKey |-> defaultPresetKeyForCurrentVoice,
             shouldApplyPreset |-> experimentalSetting.enablePreset]
       [] operation = "copy" ->
            IF inheritAudioInfo
            THEN [nextPresetKey |-> presetKeyCandidate,
                  shouldApplyPreset |-> FALSE]
            ELSE [nextPresetKey |-> defaultPresetKeyForCurrentVoice,
                  shouldApplyPreset |-> experimentalSetting.enablePreset]
       [] operation = "changeVoice" ->
            IF experimentalSetting.shouldApplyDefaultPresetOnVoiceChanged
            THEN [nextPresetKey |-> defaultPresetKeyForCurrentVoice,
                  shouldApplyPreset |-> TRUE]
            ELSE [nextPresetKey |-> presetKeyCandidate,
                  shouldApplyPreset |-> FALSE]

determineNextPresetKey_CopyKeepsDefault(defaultPresetKeys, experimentalSetting, inheritAudioInfo, voice, presetKeyCandidate, operation) ==
  LET defaultPresetKeyForCurrentVoice ==
        Lookup(defaultPresetKeys, VoiceId(voice))
  IN CASE operation = "generate" ->
            [nextPresetKey |-> defaultPresetKeyForCurrentVoice,
             shouldApplyPreset |-> experimentalSetting.enablePreset]
       [] operation = "copy" ->
            IF inheritAudioInfo
            THEN [nextPresetKey |-> defaultPresetKeyForCurrentVoice,
                  shouldApplyPreset |-> FALSE]
            ELSE [nextPresetKey |-> defaultPresetKeyForCurrentVoice,
                  shouldApplyPreset |-> experimentalSetting.enablePreset]
       [] operation = "changeVoice" ->
            IF experimentalSetting.shouldApplyDefaultPresetOnVoiceChanged
            THEN [nextPresetKey |-> defaultPresetKeyForCurrentVoice,
                  shouldApplyPreset |-> TRUE]
            ELSE LET isDefaultPreset ==
                       \E key \in ObjectValues(defaultPresetKeys) :
                         key = presetKeyCandidate
                 IN [nextPresetKey |->
                       IF isDefaultPreset
                       THEN defaultPresetKeyForCurrentVoice
                       ELSE presetKeyCandidate,
                     shouldApplyPreset |-> FALSE]
determineNextPresetKey(defaultPresetKeys, experimentalSetting, inheritAudioInfo, voice, presetKeyCandidate, operation) ==
  LET defaultPresetKeyForCurrentVoice ==
        Lookup(defaultPresetKeys, VoiceId(voice))
  IN CASE operation = "generate" ->
            [nextPresetKey |-> defaultPresetKeyForCurrentVoice,
             shouldApplyPreset |-> experimentalSetting.enablePreset]
       [] operation = "copy" ->
            IF inheritAudioInfo
            THEN [nextPresetKey |-> presetKeyCandidate,
                  shouldApplyPreset |-> FALSE]
            ELSE [nextPresetKey |-> defaultPresetKeyForCurrentVoice,
                  shouldApplyPreset |-> experimentalSetting.enablePreset]
       [] operation = "changeVoice" ->
            IF experimentalSetting.shouldApplyDefaultPresetOnVoiceChanged
            THEN [nextPresetKey |-> defaultPresetKeyForCurrentVoice,
                  shouldApplyPreset |-> TRUE]
            ELSE LET isDefaultPreset ==
                       \E key \in ObjectValues(defaultPresetKeys) :
                         key = presetKeyCandidate
                 IN [nextPresetKey |->
                       IF isDefaultPreset
                       THEN defaultPresetKeyForCurrentVoice
                       ELSE presetKeyCandidate,
                     shouldApplyPreset |-> FALSE]

setDefaultPresetMapMut(st, defaultPresetKeys) ==
  [st EXCEPT !.defaultPresetKeys = defaultPresetKeys]

\* the data of a preset, by its name
PresetData == {"a", "b"}

\* getters of the vuex store: the voices in the order they are listed, and
\* the character name of a voice
GET_ALL_VOICES ==
  << [engineId |-> "e", speakerId |-> "s", styleId |-> "0"],
     [engineId |-> "e", speakerId |-> "s", styleId |-> "1"] >>

VOICE_NAME(voice) == IF voice.styleId = "0" THEN "c0" ELSE "c1"

\* { ...object, [key]: value }
Spread(object, key, value) ==
  [k \in DOMAIN object \cup {key} |-> IF k = key THEN value ELSE object[k]]

\* const { [key]: _, ...rest } = object
Rest(object, key) == [k \in DOMAIN object \ {key} |-> object[k]]

\* array.includes(key)
Includes(array, key) == \E i \in DOMAIN array : array[i] = key

\* array.filter((key) => key != presetKey)
RECURSIVE FilterOut(_, _)
FilterOut(array, presetKey) ==
  IF array = <<>> THEN <<>>
  ELSE IF Head(array) # presetKey
       THEN <<Head(array)>> \o FilterOut(Tail(array), presetKey)
       ELSE FilterOut(Tail(array), presetKey)

\* JSON.parse(JSON.stringify(x)) of the preset items and of the preset
\* keys: a property whose value is undefined is dropped, an array element
\* that is undefined becomes null
JSONItems(presetItems) ==
  [k \in {j \in DOMAIN presetItems : presetItems[j] # Undefined} |->
     presetItems[k]]

JSONKeys(presetKeys) ==
  [i \in DOMAIN presetKeys |->
     IF presetKeys[i] = Undefined THEN Null ELSE presetKeys[i]]

setPresetItems(st, presetItems) == [st EXCEPT !.presetItems = presetItems]

setPresetKeys(st, presetKeys) == [st EXCEPT !.presetKeys = presetKeys]

\* window.electron.setSetting("presets", value): resolves to the stored
\* value, which is the value it was given
setSetting(value) == value

\* savePresetConfig up to its await: the value handed to setSetting
PresetConfig(presetItems, presetKeys) ==
  [items |-> JSONItems(presetItems), keys |-> JSONKeys(presetKeys)]

\* savePresetConfig after its await: both mutations, from the result
savePresetConfigResume(st, result) ==
  setPresetKeys(setPresetItems(st, result.items), result.keys)

savePresetConfig(st, presetItems, presetKeys) ==
  savePresetConfigResume(st, setSetting(PresetConfig(presetItems, presetKeys)))

\* what addPreset, updatePreset and deletePreset read from the store and
\* hand to savePresetConfig
addPresetConfig(st, newKey, presetData) ==
  PresetConfig(Spread(st.presetItems, newKey, presetData),
               <<newKey>> \o st.presetKeys)

updatePresetConfig(st, presetKey, presetData) ==
  PresetConfig(Spread(st.presetItems, presetKey, presetData),
               IF Includes(st.presetKeys, presetKey)
               THEN st.presetKeys
               ELSE <<presetKey>> \o st.presetKeys)

deletePresetConfig(st, presetKey) ==
  PresetConfig(Rest(st.presetItems, presetKey),
               FilterOut(st.presetKeys, presetKey))

\* the three actions run without interruption; newKey is the uuid drawn
addPreset(st, newKey, presetData) ==
  savePresetConfigResume(st, setSetting(addPresetConfig(st, newKey, presetData)))

updatePreset_KeepsKeys(st, presetKey, presetData) ==
  savePresetConfigResume(st,
    setSetting(PresetConfig(Spread(st.presetItems, presetKey, presetData),
                            st.presetKeys)))

updatePreset(st, presetKey, presetData) ==
  savePresetConfigResume(st,
    setSetting(updatePresetConfig(st, presetKey, presetData)))

deletePreset(st, presetKey) ==
  savePresetConfigResume(st, setSetting(deletePresetConfig(st, presetKey)))

setDefaultPresetMap_DropsMap(st, defaultPresetKeys) == st

\* setDefaultPresetMap: the setting is written without waiting for it
setDefaultPresetMap(st, defaultPresetKeys) ==
  setDefaultPresetMapMut(st, defaultPresetKeys)

\* createAllDefaultPreset run alone: the loop over the voices; newKeys are
\* the uuids drawn, in order
RECURSIVE createDefaultPresets(_, _, _)
createDefaultPresets(st, voices, newKeys) ==
  IF voices = <<>> THEN st
  ELSE LET voice == Head(voices)
           voiceId == VoiceId(voice)
           defaultPresetKey == Lookup(st.defaultPresetKeys, voiceId)
           presetData == VOICE_NAME(voice)
           newPresetKey == Head(newKeys)
           added == addPreset(st, newPresetKey, presetData)
       IN IF Includes(st.presetKeys, defaultPresetKey)
          THEN createDefaultPresets(st, Tail(voices), newKeys)
          ELSE createDefaultPresets(
                 setDefaultPresetMap(added,
                   Spread(added.defaultPresetKeys, voiceId, newPresetKey)),
                 Tail(voices), Tail(newKeys))

createAllDefaultPreset(st, newKeys) ==
  createDefaultPresets(st, GET_ALL_VOICES, newKeys)

\* hydratePresetStore: the default keys and, when a preset config with
\* both parts is stored, the items and the keys
hydratePresetStore(st, defaultPresetKeys, presetConfig) ==
  LET hydrated == setDefaultPresetMapMut(st, defaultPresetKeys)
  IN IF \/ "items" \notin DOMAIN presetConfig
        \/ "keys" \notin DOMAIN presetConfig
     THEN hydrated
     ELSE setPresetKeys(setPresetItems(hydrated, presetConfig.items),
                        presetConfig.keys)

\* ---------------------------------------------------------- state machine
VARIABLES state, immerShrink, lastOp, tasks, partialSeen, mem,
          lastCommandUnixMillisec, ret, presetState, presetCall, timeline,
          presetTasks

vars == <<state, immerShrink, lastOp, tasks, partialSeen, mem,
          lastCommandUnixMillisec, ret, presetState, presetCall, timeline,
                 presetTasks>>

\* ret: what the last action of the project store returned, with the
\* answers it was given
NoRet == [action |-> "none", value |-> "none", errorDialog |-> FALSE]

\* presetCall: the last call of determineNextPresetKey, with its arguments
NoCall ==
  [operation |-> "none", voice |-> CHOOSE voice \in Voices : TRUE,
   defaultPresetKeys |-> usePresetState.defaultPresetKeys,
   presetKeyCandidate |-> Undefined, inheritAudioInfo |-> FALSE,
   experimentalSetting |-> [enablePreset |-> FALSE,
                            shouldApplyDefaultPresetOnVoiceChanged |-> FALSE],
   result |-> [nextPresetKey |-> Undefined, shouldApplyPreset |-> FALSE]]

\* presetTasks: the preset actions in flight (at: where each one stands,
\* with the value it handed to setSetting) and the actions that have
\* completed since the store was hydrated (done)
NoPresetTask ==
  [pc |-> "idle", kind |-> "none", presetKey |-> Undefined,
   presetData |-> Undefined,
   result |-> [items |-> usePresetState.presetItems,
               keys |-> usePresetState.presetKeys]]

NoPresetTasks ==
  [at |-> [t \in {"t1", "t2"} |-> NoPresetTask], done |-> <<>>,
   hydrated |-> FALSE]

\* the asynchronous actions in flight
Tasks == {"t1", "t2"}

\* an action that is not running: no command in hand
TaskAt(pc) ==
  [pc |-> pc, command |-> Command(<<>>, <<>>), next |-> 0, expect |-> <<>>]

\* the part of the state outside the two stacks
Tree(st) == [items |-> st.items, props |-> st.props,
             projectFilePath |-> st.projectFilePath,
             savedLastCommandUnixMillisec |-> st.savedLastCommandUnixMillisec]

NoKey == <<>>

\* payloads offered to the recipes
PushVals == {"a"}
SetVals == {"b"}

\* the recipes offered in state st (statements stay inside the array)
Statements(st) ==
     {Stmt("push", NoKey, 0, v) : v \in {w \in PushVals : Len(st.items) < MaxLen}}
\cup {Stmt("splice", NoKey, i, "a") : i \in 0..(Len(st.items) - 1)}
\cup {Stmt("setItem", NoKey, i, v) : i \in 0..(Len(st.items) - 1), v \in SetVals}
\cup UNION {{Stmt("setProp", k, 0, v) : v \in PropValsOf(k)} : k \in Keys}
\cup {Stmt("deleteProp", k, 0, "a") : k \in Keys}

Recipes(st) ==
     {Recipe(<<s>>, FALSE) : s \in Statements(st)}
\cup {Recipe(<<>>, FALSE), Recipe(<<>>, TRUE)}
\cup {Recipe(<<Stmt("setProp", <<"k">>, 0, "a")>>, TRUE)}

\* lastOp: the operation that led to the current state: its kind, whether
\* it found something to do (acted), the error it raised, and the lengths
\* of the two stacks before it
Op(kind, acted, err) ==
  [kind |-> kind, acted |-> acted, err |-> err,
   undoBefore |-> Len(state.undoCommands),
   redoBefore |-> Len(state.redoCommands)]

Init ==
  /\ state = [items |-> <<>>, props |-> [k \in {} |-> Undefined],
              projectFilePath |-> Undefined,
              savedLastCommandUnixMillisec |-> Null,
              undoCommands |-> <<>>, redoCommands |-> <<>>]
  /\ immerShrink \in {"length", "remove"}
  /\ lastOp = [kind |-> "init", acted |-> FALSE, err |-> "none",
               undoBefore |-> 0, redoBefore |-> 0]
  /\ tasks = [t \in Tasks |-> TaskAt("idle")]
  /\ partialSeen = FALSE
  /\ mem = [heap |-> [r \in Refs |-> Free], items |-> <<>>,
            undoCommands |-> <<>>, redoCommands |-> <<>>]
  /\ lastCommandUnixMillisec = Null
  /\ ret = NoRet
  /\ presetState = usePresetState
  /\ presetCall = NoCall
  /\ timeline = [phase |-> "commit", snaps |-> <<Tree(state)>>]
  /\ presetTasks = NoPresetTasks

Step(kind, acted, out) ==
  /\ state' = out.st
  /\ lastOp' = Op(kind, acted, out.err)
  /\ UNCHANGED <<immerShrink, tasks, partialSeen, mem,
                 lastCommandUnixMillisec, ret, presetState, presetCall, timeline,
                 presetTasks>>

Commit ==
  /\ Len(state.undoCommands) < MaxHist
  /\ \E recipe \in Recipes(state) :
       Step("COMMIT", ~recipe.throws,
            createCommandMutation(state, recipe, immerShrink))

Undo == Step("UNDO", CAN_UNDO(state), UNDO(state))

Redo == Step("REDO", CAN_REDO(state), REDO(state))

Clear == Step("CLEAR_COMMANDS", TRUE, CLEAR_COMMANDS(state))

Next == Commit \/ Undo \/ Redo \/ Clear

Spec == Init /\ [][Next]_vars

\* ------------------------------------------- silent mutations and history
\* the recipes on the plain key
PlainRecipes(st) ==
  {Recipe(<<s>>, FALSE) : s \in {x \in Statements(st) : x.key = <<"k">>}}

CommitPlain ==
  /\ Len(state.undoCommands) < MaxHist
  /\ \E recipe \in PlainRecipes(state) :
       Step("COMMIT", TRUE, createCommandMutation(state, recipe, immerShrink))

SetProjectFilepath ==
  \E filePath \in FilePaths :
    Step("SET_PROJECT_FILEPATH", TRUE,
         defMut_act(SET_PROJECT_FILEPATH(state, filePath)))

SilentNext == CommitPlain \/ Undo \/ Redo \/ Clear \/ SetProjectFilepath

SilentSpec == Init /\ [][SilentNext]_vars

\* ---------------------------------- asynchronous actions and the commit
\* An action is suspended while it awaits: before it reaches its commit
\* ("before") or after the commit returned ("after").  The commit itself is
\* the synchronous body of createCommandMutation: the diff, one step per
\* operation of doOperation ("applying"), the push ("pushed"), the splice.
\* variant of Suspended with an await between two operations of the script
Suspended_AwaitInCommit(pc) == pc \in {"idle", "before", "after", "applying"}

Suspended(pc) == pc \in {"idle", "before", "after"}

MidCommit(pc) == pc \in {"applying", "pushed"}

\* the event loop starts a piece of synchronous code only when no other is
\* running; it then sees whatever the state holds
CanRun(t) == \A u \in Tasks \ {t} : Suspended(tasks[u].pc)
SeesPartial(t) == \E u \in Tasks \ {t} : MidCommit(tasks[u].pc)
NoTask == "none"

\* variant of Abandon that rolls a committed command back
Abandon_Rollback(st, committed) ==
  IF committed /\ st.undoCommands # <<>> THEN UNDO(st).st ELSE st

\* a failed or abandoned action: nothing of the store runs for it
Abandon(st, committed) == st

\* recipes of two statements, one on the array and one on the plain key,
\* and a recipe that throws
AsyncRecipes(st) ==
     {Recipe(<<s, Stmt("setProp", <<"k">>, 0, "a")>>, FALSE) :
        s \in {x \in Statements(st) : x.type = "push"}}
\cup {Recipe(<<s, Stmt("deleteProp", <<"k">>, 0, "a")>>, FALSE) :
        s \in {x \in Statements(st) : x.type = "splice"}}
\cup {Recipe(<<>>, TRUE)}

Move(t, task, kind, acted, err, st) ==
  /\ tasks' = [tasks EXCEPT ![t] = task]
  /\ state' = st
  /\ lastOp' = Op(kind, acted, err)
  /\ partialSeen' = (partialSeen \/ SeesPartial(t))
  /\ UNCHANGED <<immerShrink, mem, lastCommandUnixMillisec, ret,
                 presetState, presetCall, timeline,
                 presetTasks>>

Dispatch(t) ==
  /\ CanRun(t) /\ tasks[t].pc = "idle"
  /\ Move(t, TaskAt("before"), "DISPATCH", TRUE, "none", state)

BeginCommit(t) ==
  /\ CanRun(t) /\ tasks[t].pc = "before"
  /\ Len(state.undoCommands) < MaxHist
  /\ \E recipe \in AsyncRecipes(state) :
       LET rec == recordOperations(recipe, state, immerShrink)
       IN IF rec.threw
          THEN Move(t, TaskAt("idle"), "COMMIT", FALSE, "RecipeError", state)
          ELSE Move(t, [pc |-> "applying", command |-> rec.command, next |-> 1,
                        expect |-> createCommandMutation(state, recipe,
                                                         immerShrink).st],
                    "BEGIN", TRUE, "none", state)

ApplyNext(t) ==
  /\ CanRun(t) /\ tasks[t].pc = "applying"
  /\ tasks[t].next <= Len(tasks[t].command.doOperation)
  /\ LET r == ApplyOp(state, tasks[t].command.doOperation[tasks[t].next])
     IN IF r.res = "throw"
        THEN Move(t, TaskAt("idle"), "COMMIT", FALSE, "TypeError", r.v)
        ELSE Move(t, [tasks[t] EXCEPT !.next = @ + 1], "APPLY", TRUE, "none", r.v)

Push(t) ==
  /\ CanRun(t) /\ tasks[t].pc = "applying"
  /\ tasks[t].next > Len(tasks[t].command.doOperation)
  /\ Move(t, [tasks[t] EXCEPT !.pc = "pushed"], "PUSH", TRUE, "none",
          [state EXCEPT !.undoCommands = Append(@, tasks[t].command)])

ClearRedo(t) ==
  /\ CanRun(t) /\ tasks[t].pc = "pushed"
  /\ Move(t, TaskAt("after"), "COMMIT", TRUE, "none",
          [state EXCEPT !.redoCommands = <<>>])

Finish(t) ==
  /\ CanRun(t) /\ tasks[t].pc = "after"
  /\ Move(t, TaskAt("idle"), "FINISH", TRUE, "none", state)

Cancel(t) ==
  /\ CanRun(t) /\ tasks[t].pc \in {"before", "after"}
  /\ Move(t, TaskAt("idle"), "CANCEL", tasks[t].pc = "after", "none",
          Abandon(state, tasks[t].pc = "after"))

\* UNDO, REDO, CLEAR_COMMANDS and a reader, started by the event loop
Other(kind, acted, out) ==
  /\ CanRun(NoTask)
  /\ state' = out.st
  /\ lastOp' = Op(kind, acted, out.err)
  /\ partialSeen' = (partialSeen \/ SeesPartial(NoTask))
  /\ UNCHANGED <<immerShrink, tasks, mem, lastCommandUnixMillisec, ret,
                 presetState, presetCall, timeline,
                 presetTasks>>

AsyncUndo == Other("UNDO", CAN_UNDO(state), UNDO(state))
AsyncRedo == Other("REDO", CAN_REDO(state), REDO(state))
AsyncClear == Other("CLEAR_COMMANDS", TRUE, CLEAR_COMMANDS(state))
Observe == Other("OBSERVE", TRUE, Outcome(state, "none"))

AsyncNext ==
  \/ \E t \in Tasks : \/ Dispatch(t) \/ BeginCommit(t) \/ ApplyNext(t)
                       \/ Push(t) \/ ClearRedo(t) \/ Finish(t) \/ Cancel(t)
  \/ AsyncUndo \/ AsyncRedo \/ AsyncClear \/ Observe

AsyncSpec == Init /\ [][AsyncNext]_vars

\* --------------------------------------- commands and the live objects
RefStatements(m) ==
     {Stmt("pushItem", NoKey, 0, v) : v \in {w \in Names : Len(m.items) < MaxLen}}
\cup {Stmt("replaceItem", NoKey, i, v) : i \in 0..(Len(m.items) - 1), v \in Names}
\cup {Stmt("setName", NoKey, i, v) : i \in 0..(Len(m.items) - 1), v \in Names}

RefStep(kind, acted, m) ==
  /\ mem' = m
  /\ lastOp' = [kind |-> kind, acted |-> acted, err |-> "none",
                undoBefore |-> Len(mem.undoCommands),
                redoBefore |-> Len(mem.redoCommands)]
  /\ UNCHANGED <<state, immerShrink, tasks, partialSeen,
                 lastCommandUnixMillisec, ret, presetState, presetCall, timeline,
                 presetTasks>>

\* a commit needs room for the payload object and for the clone add makes
RefCommit ==
  /\ Len(mem.undoCommands) < MaxHist
  /\ Cardinality(FreeRefs(mem.heap)) >= 2
  /\ \E s \in RefStatements(mem) :
       RefStep("COMMIT", TRUE, createCommandMutationRef(mem, s, immerShrink))

RefUndo == RefStep("UNDO", mem.undoCommands # <<>>, UNDORef(mem))

RefRedo ==
  /\ mem.redoCommands # <<>> => FreeRefs(mem.heap) # {}
  /\ RefStep("REDO", mem.redoCommands # <<>>, REDORef(mem))

RefClear ==
  RefStep("CLEAR_COMMANDS", TRUE,
          [mem EXCEPT !.undoCommands = <<>>, !.redoCommands = <<>>])

RefNext == RefCommit \/ RefUndo \/ RefRedo \/ RefClear

RefSpec == Init /\ [][RefNext]_vars

\* ------------------------------------------------------- project store
\* values of the getter LAST_COMMAND_UNIX_MILLISEC; answers of the dialogs
Stamps == {Null, "t1"}
DialogPaths == {Undefined, "q.vvproj"}
Buttons == {0, 1, 2}
AudioItem(text, ids) ==
  [text |-> text, voice |-> [id \in ids |-> "x"]]
AllIds == {"engineId", "speakerId", "styleId"}
\* project files: three that pass the validation check, and one for each
\* way of failing it
Files ==
  { ProjectData(<<>>, [audioKey \in {} |-> Undefined]),
    ProjectData(<<"k1">>, [audioKey \in {"k1"} |-> AudioItem("a", AllIds)]),
    ProjectData(<<"k1", "k2">>,
                [audioKey \in {"k1", "k2"} |->
                   AudioItem(IF audioKey = "k1" THEN "a" ELSE "b", AllIds)]),
    ProjectData(<<"k1", "k2">>, [audioKey \in {"k1"} |-> AudioItem("a", AllIds)]),
    ProjectData(<<"k1">>, [audioKey \in {"k1"} |-> [text |-> "a"]]) }
  \cup { ProjectData(<<"k1">>,
                     [audioKey \in {"k1"} |-> AudioItem("a", AllIds \ {id})]) :
           id \in AllIds }
\* the answers that matter to SAVE_OR_DISCARD_PROJECT_FILE in state st: the
\* button, and for the save button the save dialog (asked only without a
\* project path) and the fate of the write
SaveAnswers(st) ==
  [question : Buttons \ {0}, saveDialog : {Undefined}, writeFails : {FALSE}]
  \cup [question : {0},
        saveDialog : IF Falsy(st.projectFilePath) THEN DialogPaths ELSE {Undefined},
        writeFails : BOOLEAN]

\* the answers that matter to LOAD_PROJECT_FILE: the load dialog when no
\* path is given; then either the read throws, or the file is one that the
\* validation check refuses, or it is a valid file, the save-or-discard
\* question is answered (asked only of an edited project with confirm) and
\* REGISTER_AUDIO_ITEM throws or not
LoadEnv(d, f, t, a) ==
  [loadDialog |-> d, file |-> f, throwAt |-> t, registered |-> 0,
   question |-> a.question, saveDialog |-> a.saveDialog,
   writeFails |-> a.writeFails]

NoAnswer == [question |-> 2, saveDialog |-> Undefined, writeFails |-> FALSE]

LoadEnvs(st, last, filePath, confirm) ==
  LET noFile == ProjectData(<<>>, [audioKey \in {} |-> Undefined])
      path == IF Falsy(filePath) THEN "q.vvproj" ELSE Undefined
      answers == IF confirm /\ IS_EDITED(st, last) THEN SaveAnswers(st)
                 ELSE {NoAnswer}
  IN {LoadEnv(d, noFile, "none", NoAnswer) :
        d \in IF Falsy(filePath) THEN {Undefined, "empty"} ELSE {}}
     \cup {LoadEnv(path, noFile, "read", NoAnswer)}
     \cup {LoadEnv(path, f, "none", NoAnswer) :
             f \in {g \in Files : ValidationError(g) # "none"}}
     \cup {LoadEnv(path, f, t, a) :
             f \in {g \in Files : ValidationError(g) = "none"},
             t \in {"none", "register"}, a \in answers}

Returned(action, r) ==
  [action |-> action, value |-> r.value, errorDialog |-> r.errorDialog]

ProjectStep(kind, st, last, r) ==
  /\ state' = st
  /\ lastCommandUnixMillisec' = last
  /\ lastOp' = Op(kind, TRUE, "none")
  /\ ret' = r
  /\ UNCHANGED <<immerShrink, tasks, partialSeen, mem,
                 presetState, presetCall, timeline,
                 presetTasks>>

\* the editor at work: a recorded commit or an UNDO, after which the
\* getter LAST_COMMAND_UNIX_MILLISEC may give another value
Edit ==
  \E last \in Stamps :
    \/ /\ Len(state.undoCommands) < MaxHist
       /\ \E recipe \in {Recipe(<<x>>, FALSE) :
                            x \in {y \in Statements(state) : y.type = "push"}} :
            ProjectStep("COMMIT",
                        createCommandMutation(state, recipe, immerShrink).st,
                        last, NoRet)
    \/ /\ CAN_UNDO(state)
       /\ ProjectStep("UNDO", UNDO(state).st, last, NoRet)

SaveProjectFile ==
  \E overwrite \in BOOLEAN, saveDialog \in DialogPaths, writeFails \in BOOLEAN :
    LET r == SAVE_PROJECT_FILE(state, lastCommandUnixMillisec, overwrite,
                               saveDialog, writeFails)
    IN ProjectStep("SAVE_PROJECT_FILE", r.st, lastCommandUnixMillisec,
                   Returned("SAVE_PROJECT_FILE", r))

SaveOrDiscardProjectFile ==
  \E a \in SaveAnswers(state) :
    LET r == SAVE_OR_DISCARD_PROJECT_FILE(state, lastCommandUnixMillisec,
                                          a.question, a.saveDialog, a.writeFails)
    IN ProjectStep("SAVE_OR_DISCARD_PROJECT_FILE", r.st, lastCommandUnixMillisec,
                   Returned("SAVE_OR_DISCARD_PROJECT_FILE", r))

LoadProjectFile ==
  \E filePath \in FilePaths, confirm \in BOOLEAN :
  \E env \in LoadEnvs(state, lastCommandUnixMillisec, filePath, confirm) :
    LET r == LOAD_PROJECT_FILE(state, lastCommandUnixMillisec, filePath,
                               confirm, env)
    IN ProjectStep("LOAD_PROJECT_FILE", r.st, lastCommandUnixMillisec,
                   Ended(r.step, Returned("LOAD_PROJECT_FILE", r)))

\* the answers that matter to CREATE_NEW_PROJECT
NewEnvs(st, last, confirm) ==
  {[audioItem |-> "a", throwAt |-> t, question |-> a.question,
    saveDialog |-> a.saveDialog, writeFails |-> a.writeFails] :
     t \in {"none", "register"},
     a \in IF confirm /\ IS_EDITED(st, last) THEN SaveAnswers(st) ELSE {NoAnswer}}

CreateNewProject ==
  \E confirm \in BOOLEAN :
  \E env \in NewEnvs(state, lastCommandUnixMillisec, confirm) :
    LET r == CREATE_NEW_PROJECT(state, lastCommandUnixMillisec, confirm, env)
    IN ProjectStep("CREATE_NEW_PROJECT", r.st, lastCommandUnixMillisec,
                   Ended(r.step, Returned("CREATE_NEW_PROJECT", r)))

ProjectNext ==
  \/ Edit \/ SaveProjectFile \/ SaveOrDiscardProjectFile \/ LoadProjectFile
  \/ CreateNewProject

ProjectSpec == Init /\ [][ProjectNext]_vars

\* ------------------------------------------------- the preset store's steps
Operations == {"generate", "copy", "changeVoice"}

ExperimentalSettings ==
  [enablePreset : BOOLEAN, shouldApplyDefaultPresetOnVoiceChanged : BOOLEAN]

\* the maps from voice ids to preset keys the settings can hold
DefaultPresetMaps ==
  UNION {[ids -> PresetKeys \ {"p3"}] :
           ids \in SUBSET {VoiceId(voice) : voice \in Voices}}

PresetFrame ==
  UNCHANGED <<state, immerShrink, lastOp, tasks, partialSeen, mem,
              lastCommandUnixMillisec, ret, timeline, presetTasks>>

SetDefaultPresetMap ==
  \E defaultPresetKeys \in DefaultPresetMaps :
    /\ presetState' = defMut_act(
          [st |-> setDefaultPresetMapMut(presetState, defaultPresetKeys),
           err |-> "none"]).st
    /\ UNCHANGED presetCall
    /\ PresetFrame

DetermineNextPresetKey ==
  \E experimentalSetting \in ExperimentalSettings,
     inheritAudioInfo \in BOOLEAN, voice \in Voices,
     presetKeyCandidate \in PresetKeys \cup {Undefined},
     operation \in Operations :
    /\ presetCall' =
         [operation |-> operation, voice |-> voice,
          defaultPresetKeys |-> presetState.defaultPresetKeys,
          presetKeyCandidate |-> presetKeyCandidate,
          inheritAudioInfo |-> inheritAudioInfo,
          experimentalSetting |-> experimentalSetting,
          result |-> determineNextPresetKey(presetState.defaultPresetKeys,
                       experimentalSetting, inheritAudioInfo, voice,
                       presetKeyCandidate, operation)]
    /\ UNCHANGED presetState
    /\ PresetFrame

PresetNext == SetDefaultPresetMap \/ DetermineNextPresetKey

PresetSpec == Init /\ [][PresetNext]_vars

\* --------------------------------------- the preset store's actions
\* the preset configs the settings can hold: keys without duplicates, each
\* with an item, and items of presets that are not listed
RECURSIVE Distinct(_, _)
Distinct(keys, n) ==
  IF n = 0 THEN {<<>>}
  ELSE LET shorter == Distinct(keys, n - 1)
       IN shorter \cup
          UNION {{<<k>> \o s :
                    s \in {q \in shorter : Len(q) = n - 1 /\ ~Includes(q, k)}} :
                 k \in keys}

PresetConfigs ==
  {[items |-> [k \in dom |-> "a"], keys |-> keys] :
     <<keys, dom>> \in
       {<<q, d>> \in Distinct(PresetKeys, Cardinality(PresetKeys)) \X SUBSET PresetKeys :
          {q[i] : i \in DOMAIN q} \subseteq d}}
  \cup {[none |-> TRUE]}

\* a uuid: a key that is in use nowhere
FreshKeys ==
  PresetKeys
    \ ({presetState.presetKeys[i] : i \in DOMAIN presetState.presetKeys}
       \cup DOMAIN presetState.presetItems
       \cup ObjectValues(presetState.defaultPresetKeys)
       \cup {presetTasks.at[t].presetKey : t \in DOMAIN presetTasks.at})

StoreFrame ==
  UNCHANGED <<state, immerShrink, lastOp, tasks, partialSeen, mem,
              lastCommandUnixMillisec, ret, presetCall, timeline>>

Done(kind, presetKey, presetData) ==
  [kind |-> kind, presetKey |-> presetKey, presetData |-> presetData,
   included |-> Includes(presetState.presetKeys, presetKey)]

HydratePresetStore ==
  /\ ~presetTasks.hydrated
  /\ \E defaultPresetKeys \in DefaultPresetMaps,
        presetConfig \in PresetConfigs :
       presetState' =
         hydratePresetStore(presetState, defaultPresetKeys, presetConfig)
  /\ presetTasks' = [presetTasks EXCEPT !.hydrated = TRUE]
  /\ StoreFrame

\* one action of the store run to its end before the next one starts
Ran(st, done) ==
  /\ presetTasks.hydrated
  /\ presetState' = st
  /\ presetTasks' = [presetTasks EXCEPT !.done = <<done>>]
  /\ StoreFrame

AddPreset ==
  \E newKey \in FreshKeys, presetData \in PresetData :
    /\ Ran(addPreset(presetState, newKey, presetData),
           Done("addPreset", newKey, presetData))

UpdatePreset ==
  \E presetKey \in PresetKeys, presetData \in PresetData :
    /\ Ran(updatePreset(presetState, presetKey, presetData),
           Done("updatePreset", presetKey, presetData))

DeletePreset ==
  \E presetKey \in PresetKeys :
    Ran(deletePreset(presetState, presetKey),
        Done("deletePreset", presetKey, Undefined))

\* the uuids createAllDefaultPreset can draw: one per voice
NewKeys == {q \in Distinct(FreshKeys, Len(GET_ALL_VOICES)) :
              Len(q) = Cardinality(FreshKeys) \/ Len(q) = Len(GET_ALL_VOICES)}

\* the voices createAllDefaultPreset makes a preset for
Missing(st) ==
  {i \in DOMAIN GET_ALL_VOICES :
     ~Includes(st.presetKeys,
               Lookup(st.defaultPresetKeys, VoiceId(GET_ALL_VOICES[i])))}

CreateAllDefaultPreset ==
  \E newKeys \in NewKeys :
    /\ Cardinality(Missing(presetState)) <= Len(newKeys)
    /\ Ran(createAllDefaultPreset(presetState, newKeys),
           Done("createAllDefaultPreset", Undefined, Undefined))

PresetStoreNext ==
  \/ HydratePresetStore
  \/ AddPreset
  \/ UpdatePreset
  \/ DeletePreset
  \/ CreateAllDefaultPreset

PresetStoreSpec == Init /\ [][PresetStoreNext]_vars

\* ------------------------------ preset actions that run concurrently
\* an action runs up to the await of setSetting in savePresetConfig: it
\* has read the store and handed the new config over
Saving(kind, presetKey, presetData, config) ==
  [pc |-> "saving", kind |-> kind, presetKey |-> presetKey,
   presetData |-> presetData, result |-> setSetting(config)]

Begun(t, task) ==
  /\ presetTasks.hydrated
  /\ presetTasks.at[t].pc = "idle"
  /\ presetTasks' = [presetTasks EXCEPT !.at[t] = task]
  /\ UNCHANGED presetState
  /\ StoreFrame

BeginAddPreset(t) ==
  \E newKey \in FreshKeys, presetData \in PresetData :
    Begun(t, Saving("addPreset", newKey, presetData,
                    addPresetConfig(presetState, newKey, presetData)))

BeginUpdatePreset(t) ==
  \E presetKey \in PresetKeys, presetData \in PresetData :
    Begun(t, Saving("updatePreset", presetKey, presetData,
                    updatePresetConfig(presetState, presetKey, presetData)))

BeginDeletePreset(t) ==
  \E presetKey \in PresetKeys :
    Begun(t, Saving("deletePreset", presetKey, Undefined,
                    deletePresetConfig(presetState, presetKey)))

\* setSetting has resolved: the action sets the items and the keys from
\* the result and completes
ResumePreset(t) ==
  LET task == presetTasks.at[t]
  IN /\ task.pc = "saving"
     /\ presetState' = savePresetConfigResume(presetState, task.result)
     /\ presetTasks' =
          [presetTasks EXCEPT !.at[t].pc = "done",
             !.done = Append(@, Done(task.kind, task.presetKey, task.presetData))]
     /\ StoreFrame

PresetAsyncNext ==
  \/ HydratePresetStore
  \/ \E t \in DOMAIN presetTasks.at : BeginAddPreset(t)
  \/ \E t \in DOMAIN presetTasks.at : BeginUpdatePreset(t)
  \/ \E t \in DOMAIN presetTasks.at : BeginDeletePreset(t)
  \/ \E t \in DOMAIN presetTasks.at : ResumePreset(t)

PresetAsyncSpec == Init /\ [][PresetAsyncNext]_vars

\* ------------------------------------ several elements in one commit
\* the statements on an array that insert or remove one element: push,
\* unshift, splice(i, 1)
SeqStatements(items) ==
     {Stmt("push", NoKey, 0, v) : v \in {w \in {"a"} : Len(items) < MaxSeq}}
\cup {Stmt("insert", NoKey, 0, v) : v \in {w \in {"b"} : Len(items) < MaxSeq}}
\cup {Stmt("splice", NoKey, i, "a") : i \in 0..(Len(items) - 1)}

\* the recipes of two such statements, the second on the array the first
\* leaves
SeqRecipes(st) ==
  UNION {{Recipe(<<s1, s2>>, FALSE) :
            s2 \in SeqStatements(ExecStmt([items |-> st.items], st, s1).items)} :
         s1 \in SeqStatements(st.items)}

SeqCommit ==
  /\ Len(state.undoCommands) < MaxSeqHist
  /\ \E recipe \in SeqRecipes(state) :
       Step("COMMIT", TRUE, createCommandMutation(state, recipe, immerShrink))

SeqNext == SeqCommit \/ Undo \/ Redo \/ Clear

SeqSpec == Init /\ [][SeqNext]_vars

\* ------------------------------------------- scripts of three operations
\* recipes that change the array, then the key k, then the key j: the
\* recorded scripts hold the array's operation first and k's in the middle
ScriptRecipes(st) ==
  {Recipe(<<a, k, j>>, FALSE) :
     a \in IF st.items = <<>> THEN {Stmt("push", NoKey, 0, "a")}
           ELSE {Stmt("splice", NoKey, 0, "a")},
     k \in {Stmt("setProp", <<"k">>, 0, Undefined),
            Stmt("setProp", <<"k">>, 0, "a")},
     j \in {Stmt("setProp", <<"j">>, 0, "a"),
            Stmt("deleteProp", <<"j">>, 0, "a")}}

ScriptCommit ==
  /\ Len(state.undoCommands) < MaxHist
  /\ \E recipe \in ScriptRecipes(state) :
       Step("COMMIT", TRUE, createCommandMutation(state, recipe, immerShrink))

ScriptNext == ScriptCommit \/ Undo \/ Redo \/ Clear

ScriptSpec == Init /\ [][ScriptNext]_vars

\* ------------------------------- commits, then undos, then redos
\* timeline: the live state (outside the stacks) as it was at the start and
\* right after each recorded commit, and the phase of the run: commits,
\* then UNDOs, then REDOs
TimelineStep(kind, acted, out, tl) ==
  /\ state' = out.st
  /\ lastOp' = Op(kind, acted, out.err)
  /\ timeline' = tl
  /\ UNCHANGED <<immerShrink, tasks, partialSeen, mem,
                 lastCommandUnixMillisec, ret, presetState, presetCall,
                 presetTasks>>

TimelineCommit ==
  /\ timeline.phase = "commit"
  /\ Len(state.undoCommands) < MaxHist
  /\ \E recipe \in Recipes(state) :
       LET out == createCommandMutation(state, recipe, immerShrink)
       IN TimelineStep("COMMIT", ~recipe.throws, out,
            IF Len(out.st.undoCommands) > Len(state.undoCommands)
            THEN [timeline EXCEPT !.snaps = Append(@, Tree(out.st))]
            ELSE timeline)

TimelineUndo ==
  /\ timeline.phase \in {"commit", "undo"}
  /\ CAN_UNDO(state)
  /\ TimelineStep("UNDO", TRUE, UNDO(state),
                  [timeline EXCEPT !.phase = "undo"])

TimelineRedo ==
  /\ timeline.phase \in {"undo", "redo"}
  /\ CAN_REDO(state)
  /\ TimelineStep("REDO", TRUE, REDO(state),
                  [timeline EXCEPT !.phase = "redo"])

TimelineNext == TimelineCommit \/ TimelineUndo \/ TimelineRedo

TimelineSpec == Init /\ [][TimelineNext]_vars

\* ------------------------------------------------------------ properties
\* the recipes of a state that run to completion
Completing(st) == {r \in Recipes(st) : ~r.throws}

\* C1: round trip.  For every reachable state S and every recipe that runs
\* to completion, applying the recorded doOperation to S yields the
\* recipe's result S', and applying the recorded undoOperation to S'
\* yields S again.
C1_RoundTrip ==
  \A recipe \in Completing(state) :
    LET next == produceWithPatches(state, recipe, immerShrink).next
        command == recordOperations(recipe, state, immerShrink).command
    IN /\ applyPatch(state, command.doOperation).st = next
       /\ applyPatch(next, command.undoOperation).st = state

\* C2: redo invalidation.  In every state reached directly by a recorded
\* commit, redoCommands is empty.
C2_RedoInvalidation ==
  (lastOp.kind = "COMMIT" /\ lastOp.err = "none") => state.redoCommands = <<>>

C2_Witness ==
  /\ lastOp.kind = "COMMIT" /\ lastOp.err = "none"
  /\ lastOp.redoBefore > 0
  /\ state.redoCommands = <<>>

\* C3: UNDO with a non-empty undo stack removes exactly the last command of
\* undoCommands, appends that command to redoCommands, and leaves the live
\* state as the command's undoOperation script leaves it.
C3_UndoMovesLastCommand ==
  [][(lastOp'.kind = "UNDO" /\ state.undoCommands # <<>>) =>
       LET command == Last(state.undoCommands)
       IN /\ state'.undoCommands = Front(state.undoCommands)
          /\ state'.redoCommands = Append(state.redoCommands, command)
          /\ Tree(state') = Tree(applyPatch(state, command.undoOperation).st)]_vars

C3_Witness ==
  /\ lastOp.kind = "UNDO" /\ lastOp.acted
  /\ lastOp.undoBefore = 2 /\ lastOp.redoBefore = 0
  /\ Len(state.undoCommands) = 1 /\ Len(state.redoCommands) = 1
  /\ state.redoCommands[1].undoOperation # <<>>

\* C4: REDO with a non-empty redo stack removes exactly the last command of
\* redoCommands, appends that command to undoCommands, and leaves the live
\* state as the command's doOperation script leaves it.
C4_RedoMovesLastCommand ==
  [][(lastOp'.kind = "REDO" /\ state.redoCommands # <<>>) =>
       LET command == Last(state.redoCommands)
       IN /\ state'.redoCommands = Front(state.redoCommands)
          /\ state'.undoCommands = Append(state.undoCommands, command)
          /\ Tree(state') = Tree(applyPatch(state, command.doOperation).st)]_vars

C4_Witness ==
  /\ lastOp.kind = "REDO" /\ lastOp.acted
  /\ lastOp.undoBefore = 0 /\ lastOp.redoBefore = 2
  /\ Len(state.undoCommands) = 1 /\ Len(state.redoCommands) = 1
  /\ state.undoCommands[1].doOperation # <<>>

\* C5: undo/redo symmetry.  From every reachable state with a non-empty
\* undo stack, UNDO followed by REDO gives back the same live state, the
\* same undoCommands and the same redoCommands.
C5_UndoRedoSymmetry ==
  CAN_UNDO(state) => REDO(UNDO(state).st).st = state

\* C6: stack bookkeeping.  A recorded commit made while undone commands
\* are on the redo stack keeps the commands of the undo stack in place,
\* appends the command it recorded after them and discards the undone
\* commands (after A, B, UNDO, C: undoCommands = [A, C], redoCommands = []).
C6_StackBookkeeping ==
  [][(lastOp'.kind = "COMMIT" /\ lastOp'.err = "none"
      /\ state.redoCommands # <<>>) =>
       /\ state'.redoCommands = <<>>
       /\ \E recipe \in Completing(state) :
            state'.undoCommands =
              Append(state.undoCommands,
                     recordOperations(recipe, state, immerShrink).command)]_vars

C6_Witness ==
  /\ lastOp.kind = "COMMIT" /\ lastOp.err = "none"
  /\ lastOp.undoBefore = 1 /\ lastOp.redoBefore = 1
  /\ Len(state.undoCommands) = 2 /\ state.redoCommands = <<>>
  /\ state.undoCommands[1] # state.undoCommands[2]

\* C7: no-op safety.  UNDO on an empty undo stack and REDO on an empty
\* redo stack change nothing and raise no error.
C7_NoOpSafety ==
  [][/\ (lastOp'.kind = "UNDO" /\ state.undoCommands = <<>>) =>
          (state' = state /\ lastOp'.err = "none")
     /\ (lastOp'.kind = "REDO" /\ state.redoCommands = <<>>) =>
          (state' = state /\ lastOp'.err = "none")]_vars

C7_Witness ==
  /\ lastOp.kind = "UNDO" /\ ~lastOp.acted /\ lastOp.err = "none"
  /\ state.undoCommands = <<>> /\ state.redoCommands # <<>>
  /\ state.props # <<>>

\* C8: CAN_UNDO holds exactly when undoCommands is non-empty and CAN_REDO
\* exactly when redoCommands is non-empty; UNDO changes the state only
\* when CAN_UNDO held and REDO only when CAN_REDO held.
C8_GettersMatchStacks ==
  /\ [](/\ CAN_UNDO(state) <=> state.undoCommands # <<>>
        /\ CAN_REDO(state) <=> state.redoCommands # <<>>)
  /\ [][/\ (lastOp'.kind = "UNDO" /\ state' # state) => CAN_UNDO(state)
        /\ (lastOp'.kind = "REDO" /\ state' # state) => CAN_REDO(state)]_vars

C8_Witness ==
  /\ lastOp.kind = "REDO" /\ lastOp.acted
  /\ CAN_UNDO(state) /\ ~CAN_REDO(state)
  /\ lastOp.undoBefore = 0

\* C9: CLEAR_COMMANDS empties both stacks and leaves the rest of the live
\* state unchanged; afterwards CAN_UNDO and CAN_REDO are both false.
C9_ClearCommands ==
  [][lastOp'.kind = "CLEAR_COMMANDS" =>
       /\ state'.undoCommands = <<>> /\ state'.redoCommands = <<>>
       /\ Tree(state') = Tree(state)
       /\ ~CAN_UNDO(state') /\ ~CAN_REDO(state')
       /\ lastOp'.err = "none"]_vars

C9_Witness ==
  /\ lastOp.kind = "CLEAR_COMMANDS"
  /\ lastOp.undoBefore > 0 /\ lastOp.redoBefore > 0
  /\ state.undoCommands = <<>> /\ state.redoCommands = <<>>
  /\ state.items # <<>>

\* C10: a recorded commit whose recipe throws raises the error to the
\* caller and leaves the live state, undoCommands and redoCommands as they
\* were (the redo stack is not cleared, no command is pushed).
C10_RecipeThrows ==
  /\ [](\A recipe \in Recipes(state) : recipe.throws =>
          createCommandMutation(state, recipe, immerShrink)
            = Outcome(state, "RecipeError"))
  /\ [][(lastOp'.kind = "COMMIT" /\ lastOp'.err = "RecipeError") =>
          state' = state]_vars

C10_Witness ==
  /\ lastOp.kind = "COMMIT" /\ lastOp.err = "RecipeError" /\ ~lastOp.acted
  /\ state.redoCommands # <<>> /\ state.undoCommands # <<>>

\* C11: when an operation of a command's script fails during UNDO or REDO,
\* the failure is fatal for the stack: every later UNDO and REDO is refused
\* (changes nothing) until CLEAR_COMMANDS.
C11_CorruptHistoryHalts ==
  /\ (CAN_UNDO(state) /\ Failed(state, Last(state.undoCommands).undoOperation)) =>
       LET after == UNDO(state).st
       IN UNDO(after).st = after /\ REDO(after).st = after
  /\ (CAN_REDO(state) /\ Failed(state, Last(state.redoCommands).doOperation)) =>
       LET after == REDO(state).st
       IN UNDO(after).st = after /\ REDO(after).st = after

\* C12: a recorded commit whose recipe changes nothing pushes a command
\* with empty doOperation and undoOperation, clears redoCommands (so
\* CAN_UNDO holds and CAN_REDO does not), and undoing that command leaves
\* the live state unchanged.
C12_EmptyCommand ==
  \A recipe \in Completing(state) :
    produceWithPatches(state, recipe, immerShrink).next = state =>
      LET out == createCommandMutation(state, recipe, immerShrink)
      IN /\ out.err = "none"
         /\ out.st.undoCommands = Append(state.undoCommands, Command(<<>>, <<>>))
         /\ out.st.redoCommands = <<>>
         /\ CAN_UNDO(out.st) /\ ~CAN_REDO(out.st)
         /\ Tree(out.st) = Tree(state)
         /\ Tree(UNDO(out.st).st) = Tree(state)

C12_Witness ==
  /\ lastOp.kind = "COMMIT" /\ lastOp.err = "none" /\ lastOp.redoBefore > 0
  /\ state.undoCommands # <<>>
  /\ Last(state.undoCommands) = Command(<<>>, <<>>)
  /\ state.redoCommands = <<>>
  /\ state.props # <<>>

\* C13: appending one element v to a sequence of length n records the
\* single operation add /items/n with value v as doOperation and the single
\* operation remove /items/n as undoOperation ([a, b] + c: add and remove
\* at items/2).
C13_AppendRecordsAddRemove ==
  \A v \in PushVals :
    LET n == Len(state.items)
        path == <<"/", "items", "/", Digits[n + 1]>>
        command == recordOperations(Recipe(<<Stmt("push", NoKey, 0, v)>>, FALSE),
                                    state, immerShrink).command
    IN /\ command.doOperation = <<[op |-> "add", path |-> path, value |-> v]>>
       /\ command.undoOperation =
            <<[op |-> "remove", path |-> path, value |-> Undefined]>>

\* C14: a silent mutation applies its effect and has no history effect:
\* undoCommands and redoCommands are the same before and after it, and a
\* later UNDO does not revert the change it made.
C14_SilentMutation ==
  /\ [][lastOp'.kind = "SET_PROJECT_FILEPATH" =>
          /\ state'.undoCommands = state.undoCommands
          /\ state'.redoCommands = state.redoCommands
          /\ \E filePath \in FilePaths :
               state' = [state EXCEPT !.projectFilePath = filePath]]_vars
  /\ [][lastOp'.kind = "UNDO" =>
          state'.projectFilePath = state.projectFilePath]_vars

C14_Witness ==
  /\ lastOp.kind = "UNDO" /\ lastOp.acted
  /\ lastOp.undoBefore = 1 /\ lastOp.redoBefore = 1
  /\ state.projectFilePath = "p.vvproj"
  /\ state.undoCommands = <<>> /\ Len(state.redoCommands) = 2

\* C15: the commit step of a recorded mutation is atomic.  No commit, UNDO,
\* REDO, CLEAR_COMMANDS or reader runs between the start of the diff and
\* the end of the commit, under any interleaving of the asynchronous
\* actions, so the commit ends in the state the whole mutation gives and a
\* partly applied command is never seen.
C15_CommitAtomic ==
  /\ [](~partialSeen)
  /\ [][\A t \in Tasks :
          (tasks[t].pc = "pushed" /\ tasks'[t].pc = "after") =>
             state' = tasks[t].expect]_vars

C15_Witness ==
  /\ lastOp.kind = "COMMIT" /\ lastOp.acted
  /\ tasks["t1"].pc = "after" /\ tasks["t2"].pc = "before"
  /\ Len(state.undoCommands) = 2
  /\ Len(Last(state.undoCommands).doOperation) = 2

\* C16: cancellation.  An action that is abandoned or fails before its
\* commit leaves undoCommands and redoCommands (and the live state) as they
\* were; an action that is abandoned or fails after its recorded mutation
\* committed leaves the live state and the pushed command in place.
C16_Cancellation ==
  /\ [][lastOp'.kind = "CANCEL" => state' = state]_vars
  /\ [][(lastOp'.kind = "COMMIT" /\ ~lastOp'.acted
          /\ lastOp'.err = "RecipeError") =>
             (state'.undoCommands = state.undoCommands
              /\ state'.redoCommands = state.redoCommands)]_vars

C16_Witness ==
  /\ lastOp.kind = "CANCEL" /\ lastOp.acted
  /\ lastOp.undoBefore = 1
  /\ Len(state.undoCommands) = 1 /\ state.items # <<>>
  /\ Len(state.undoCommands[1].doOperation) = 2

\* C17: commands are immutable once created.  At every later point, every
\* command on undoCommands or redoCommands carries in its doOperation and
\* undoOperation scripts the values it carried when it was recorded.
C17_CommandsImmutable ==
  \A stack \in {mem.undoCommands, mem.redoCommands} :
    \A i \in DOMAIN stack : Carried(stack[i], mem.heap) = stack[i].created

\* every answer SAVE_OR_DISCARD_PROJECT_FILE can be given
AllSaveAnswers == [question : Buttons, saveDialog : DialogPaths, writeFails : BOOLEAN]

\* C18: SAVE_OR_DISCARD_PROJECT_FILE returns "saved" only when the user
\* chose to save and SAVE_PROJECT_FILE reported success, "discarded"
\* exactly when the user chose discard, and "canceled" in every other
\* case, including a chosen save that failed.
C18_SaveOrDiscardResult ==
  \A a \in AllSaveAnswers :
    LET r == SAVE_OR_DISCARD_PROJECT_FILE(state, lastCommandUnixMillisec,
                                          a.question, a.saveDialog, a.writeFails)
        save == SAVE_PROJECT_FILE(state, lastCommandUnixMillisec, TRUE,
                                  a.saveDialog, a.writeFails)
    IN /\ r.value = "saved" <=> (a.question = 0 /\ save.value = "true")
       /\ r.value = "discarded" <=> a.question = 1
       /\ r.value = "canceled" <=>
            (a.question \notin {0, 1} \/ (a.question = 0 /\ save.value = "false"))
       /\ r.value = "saved" => r.wrote # NoFile
       /\ a.question # 0 => r.st = state

C18_Witness ==
  /\ lastOp.kind = "SAVE_OR_DISCARD_PROJECT_FILE"
  /\ ret.value = "canceled" /\ ret.errorDialog
  /\ IS_EDITED(state, lastCommandUnixMillisec)
  /\ state.projectFilePath = "q.vvproj"

C20_SaveResult ==
  \A overwrite \in BOOLEAN, saveDialog \in DialogPaths, writeFails \in BOOLEAN :
    LET r == SAVE_PROJECT_FILE(state, lastCommandUnixMillisec, overwrite,
                               saveDialog, writeFails)
        path == IF overwrite /\ state.projectFilePath \notin {Undefined, ""}
                THEN state.projectFilePath ELSE saveDialog
    IN /\ r.value \in {"true", "false"}
       /\ r.value = "true" <=> r.wrote # NoFile
       /\ r.value = "true" =>
            /\ r.wrote = path /\ ~writeFails
            /\ r.st.projectFilePath = path
            /\ r.st.savedLastCommandUnixMillisec = lastCommandUnixMillisec
            /\ ~IS_EDITED(r.st, lastCommandUnixMillisec)
       /\ r.value = "false" =>
            /\ r.st.projectFilePath = state.projectFilePath
            /\ r.st.savedLastCommandUnixMillisec = state.savedLastCommandUnixMillisec

C20_Witness ==
  /\ lastOp.kind = "SAVE_PROJECT_FILE" /\ ret.value = "true"
  /\ state.projectFilePath = "q.vvproj"
  /\ state.savedLastCommandUnixMillisec = "t1"
  /\ ~IS_EDITED(state, lastCommandUnixMillisec)
  /\ state.undoCommands # <<>>

\* C21: determineNextPresetKey, case by case.  "generate" returns the
\* current voice's default key and applies it iff presets are enabled;
\* "copy" returns the candidate unapplied when the audio info is inherited
\* and otherwise the default key, applied iff presets are enabled;
\* "changeVoice" returns the default key applied when
\* shouldApplyDefaultPresetOnVoiceChanged is set and otherwise applies
\* nothing.
C21_DetermineNextPresetKey ==
  LET c == presetCall
      default == Lookup(c.defaultPresetKeys, VoiceId(c.voice))
      enablePreset == c.experimentalSetting.enablePreset
      byDefault == [nextPresetKey |-> default,
                    shouldApplyPreset |-> enablePreset]
  IN /\ c.operation = "generate" => c.result = byDefault
     /\ c.operation = "copy" /\ c.inheritAudioInfo =>
          c.result = [nextPresetKey |-> c.presetKeyCandidate,
                      shouldApplyPreset |-> FALSE]
     /\ c.operation = "copy" /\ ~c.inheritAudioInfo => c.result = byDefault
     /\ c.operation = "changeVoice" =>
          IF c.experimentalSetting.shouldApplyDefaultPresetOnVoiceChanged
          THEN c.result = [nextPresetKey |-> default,
                           shouldApplyPreset |-> TRUE]
          ELSE c.result.shouldApplyPreset = FALSE

\* a copy that inherits a candidate other than the voice's default, with
\* presets enabled
C21_Witness ==
  /\ presetCall.operation = "copy"
  /\ presetCall.inheritAudioInfo
  /\ presetCall.experimentalSetting.enablePreset
  /\ presetCall.presetKeyCandidate = "p3"
  /\ Lookup(presetCall.defaultPresetKeys, VoiceId(presetCall.voice)) = "p1"
  /\ presetCall.result.nextPresetKey = "p3"

\* the operations of a script that address one of the two stacks
AddressesStacks(ops) ==
  {i \in DOMAIN ops :
     LET tokens == PointerTokens(ops[i].path)
     IN tokens # <<>> /\ tokens[1] \in {<<"undoCommands">>, <<"redoCommands">>}}

\* C22: a recorded commit applies the recipe's effect to the live state
\* exactly once, in the order diff, apply, push: the pushed command is the
\* diff against the state before the commit, the live state afterwards is
\* the recipe's result, neither script addresses undoCommands or
\* redoCommands, and undoing the command changes the stacks only by the
\* pop and the push.
C22_RecordedCommit ==
  \A recipe \in Completing(state) :
    LET out == createCommandMutation(state, recipe, immerShrink)
        rec == recordOperations(recipe, state, immerShrink)
        next == produceWithPatches(state, recipe, immerShrink).next
        undone == UNDO(out.st).st
    IN out.err = "none" =>
         /\ Last(out.st.undoCommands) = rec.command
         /\ Tree(out.st) = Tree(next)
         /\ AddressesStacks(rec.command.doOperation) = {}
         /\ AddressesStacks(rec.command.undoOperation) = {}
         /\ undone.undoCommands = state.undoCommands
         /\ undone.redoCommands = <<rec.command>>

\* the history: undoCommands followed by the reverse of redoCommands
Reverse(s) == [i \in 1..Len(s) |-> s[Len(s) + 1 - i]]

History(st) == st.undoCommands \o Reverse(st.redoCommands)

IsPrefix(s, t) == Len(s) <= Len(t) /\ s = SubSeq(t, 1, Len(s))

\* C23: history lifecycle.  UNDO and REDO preserve undoCommands followed
\* by the reverse of redoCommands; a command leaves the history only
\* through CLEAR_COMMANDS or through a recorded commit made while it is on
\* the redo stack; a recorded commit keeps undoCommands and appends exactly
\* one command to it; redoCommands gains entries only through UNDO.
C23_HistoryLifecycle ==
  /\ History(UNDO(state).st) = History(state)
  /\ History(REDO(state).st) = History(state)
  /\ IsPrefix(REDO(state).st.redoCommands, state.redoCommands)
  /\ IsPrefix(CLEAR_COMMANDS(state).st.redoCommands, state.redoCommands)
  /\ \A recipe \in Recipes(state) :
       LET out == createCommandMutation(state, recipe, immerShrink)
       IN /\ IsPrefix(state.undoCommands, out.st.undoCommands)
          /\ IsPrefix(out.st.redoCommands, state.redoCommands)
          /\ out.err = "none" =>
               Len(out.st.undoCommands) = Len(state.undoCommands) + 1

\* a REDO has put back the second of two different undone commands, above
\* a command that stayed on the undo stack
C23_Witness ==
  /\ lastOp.kind = "REDO" /\ lastOp.acted
  /\ lastOp.undoBefore = 1 /\ lastOp.redoBefore = 1
  /\ Len(state.undoCommands) = 2 /\ state.redoCommands = <<>>
  /\ state.undoCommands[1] # state.undoCommands[2]

\* C24: after n recorded commits followed by k UNDOs (k <= n) the live
\* state outside the stacks is the state right after the (n-k)-th commit,
\* and after j further REDOs (j <= k) it is the state right after the
\* (n-k+j)-th commit.  (undoCommands holds n-k+j commands at that point.)
C24_UndoRedoTimeline ==
  Tree(state) = timeline.snaps[Len(state.undoCommands) + 1]

\* C25: for a recipe that inserts or removes several elements of one
\* array in a single commit, every operation of doOperation and of
\* undoOperation, applied in order, finds the element it addresses, and the
\* round trip holds: doOperation takes the state to the recipe's result
\* and undoOperation takes the result back.
C25_MultiOperationScripts ==
  \A recipe \in SeqRecipes(state) :
    LET next == produceWithPatches(state, recipe, immerShrink).next
        command == recordOperations(recipe, state, immerShrink).command
    IN /\ ~Failed(state, command.doOperation)
       /\ ~Failed(next, command.undoOperation)
       /\ applyPatch(state, command.doOperation).st = next
       /\ applyPatch(next, command.undoOperation).st = state

\* the first two of four elements were removed in one commit and the
\* commit was undone: the undo script replaced two elements and added two
C25_Witness ==
  /\ lastOp.kind = "UNDO" /\ lastOp.acted
  /\ state.items = <<"b", "b", "a", "a">>
  /\ Len(state.redoCommands) = 1
  /\ applyPatch(state, state.redoCommands[1].doOperation).st.items = <<"a", "a">>
  /\ Len(state.redoCommands[1].undoOperation) = 4

\* the script ops applied to st left the tree of after: when its first
\* failing operation fails its precondition, the operations before it stay
\* applied and the operations after it are applied on top of them; when it
\* throws, the operations before it stay applied
NoRollback(st, ops, after) ==
  LET results == applyPatchResults(st, ops)
  IN \A i \in DOMAIN results :
       (results[i] # "ok" /\ \A h \in 1..(i - 1) : results[h] = "ok") =>
         LET before == applyPatch(st, SubSeq(ops, 1, i - 1)).st
         IN Tree(after) =
              IF results[i] = "throw" THEN Tree(before)
              ELSE Tree(applyPatch(before, SubSeq(ops, i + 1, Len(ops))).st)

\* C26: a script is applied with no partial rollback.  When an operation
\* of a script fails its precondition during UNDO, REDO or a recorded
\* commit, the operations of the script applied before it stay applied to
\* the live state.
C26_NoPartialRollback ==
  /\ CAN_UNDO(state) =>
       NoRollback(state, Last(state.undoCommands).undoOperation, UNDO(state).st)
  /\ CAN_REDO(state) =>
       NoRollback(state, Last(state.redoCommands).doOperation, REDO(state).st)
  /\ \A recipe \in ScriptRecipes(state) :
       NoRollback(state,
                  recordOperations(recipe, state, immerShrink).command.doOperation,
                  createCommandMutation(state, recipe, immerShrink).st)

\* an UNDO whose middle operation (remove /props/k, refused because the
\* value is undefined) failed: the array's element is gone and the key j
\* is gone, the key k is still there
C26_Witness ==
  /\ lastOp.kind = "UNDO" /\ lastOp.acted
  /\ state.redoCommands # <<>>
  /\ LET ops == Last(state.redoCommands).undoOperation
     IN /\ Len(ops) = 3
        /\ ops[2] = [op |-> "remove", path |-> <<"/", "props", "/", "k">>,
                     value |-> Undefined]
  /\ state.items = <<>>
  /\ DOMAIN state.props = {<<"k">>}
  /\ state.props[<<"k">>] = Undefined

\* C27: when CREATE_NEW_PROJECT completes without being canceled, both
\* stacks are empty (CLEAR_COMMANDS is its last mutation), projectFilePath
\* is undefined and savedLastCommandUnixMillisec is null: nothing of what
\* came before can be undone or redone.
C27_NewProjectClearsHistory ==
  \A confirm \in BOOLEAN :
  \A env \in NewEnvs(state, lastCommandUnixMillisec, confirm) :
    LET r == CREATE_NEW_PROJECT(state, lastCommandUnixMillisec, confirm, env)
    IN r.step = "done" =>
         /\ r.st.undoCommands = <<>> /\ r.st.redoCommands = <<>>
         /\ r.st.projectFilePath = Undefined
         /\ r.st.savedLastCommandUnixMillisec = Null
         /\ r.st.items = <<env.audioItem>>
         /\ ~CAN_UNDO(r.st) /\ ~CAN_REDO(r.st)
         /\ UNDO(r.st).st = r.st /\ REDO(r.st).st = r.st

\* a new project was created over a project with commands on both stacks
C27_Witness ==
  /\ lastOp.kind = "CREATE_NEW_PROJECT" /\ ret.step = "done"
  /\ lastOp.undoBefore > 0 /\ lastOp.redoBefore > 0
  /\ state.undoCommands = <<>> /\ state.redoCommands = <<>>
  /\ state.items = <<"a">>
  /\ state.projectFilePath = Undefined
  /\ state.savedLastCommandUnixMillisec = Null

\* C28: when the project is edited, confirm is not false and the
\* save-or-discard step returns "canceled", CREATE_NEW_PROJECT and
\* LOAD_PROJECT_FILE leave the items, projectFilePath,
\* savedLastCommandUnixMillisec, undoCommands and redoCommands unchanged,
\* and LOAD_PROJECT_FILE returns false.
C28_CanceledLeavesProject ==
  IS_EDITED(state, lastCommandUnixMillisec) =>
    /\ \A env \in NewEnvs(state, lastCommandUnixMillisec, TRUE) :
         LET sd == SAVE_OR_DISCARD_PROJECT_FILE(state, lastCommandUnixMillisec,
                     env.question, env.saveDialog, env.writeFails)
             r == CREATE_NEW_PROJECT(state, lastCommandUnixMillisec, TRUE, env)
         IN sd.value = "canceled" => (r.st = state /\ r.value = Undefined)
    /\ \A filePath \in FilePaths :
       \A env \in LoadEnvs(state, lastCommandUnixMillisec, filePath, TRUE) :
         LET sd == SAVE_OR_DISCARD_PROJECT_FILE(state, lastCommandUnixMillisec,
                     env.question, env.saveDialog, env.writeFails)
             r == LOAD_PROJECT_FILE(state, lastCommandUnixMillisec, filePath,
                                    TRUE, env)
         IN sd.value = "canceled" => (r.st = state /\ r.value = "false")

\* loading over an edited project with an item, a path and a command ended
\* at the canceled save-or-discard step
C28_Witness ==
  /\ lastOp.kind = "LOAD_PROJECT_FILE" /\ ret.step = "canceled"
  /\ ret.value = "false"
  /\ IS_EDITED(state, lastCommandUnixMillisec)
  /\ state.items # <<>> /\ state.projectFilePath # Undefined
  /\ state.undoCommands # <<>>

\* C29: whenever LOAD_PROJECT_FILE returns false, the open project is
\* intact: items, projectFilePath, undoCommands and redoCommands are as
\* before the call, whichever step failed (read, parse, migration,
\* validation, registering an item).
C29_FailedLoadLeavesProject ==
  \A filePath \in FilePaths, confirm \in BOOLEAN :
  \A env \in LoadEnvs(state, lastCommandUnixMillisec, filePath, confirm) :
    LET r == LOAD_PROJECT_FILE(state, lastCommandUnixMillisec, filePath,
                               confirm, env)
    IN r.value = "false" =>
         /\ r.st.items = state.items
         /\ r.st.projectFilePath = state.projectFilePath
         /\ r.st.undoCommands = state.undoCommands
         /\ r.st.redoCommands = state.redoCommands

\* the files the validation check must refuse: a key of audioKeys that is
\* not a key of audioItems, or a listed item without voice.engineId,
\* voice.speakerId or voice.styleId
Invalid(projectData) ==
  \E i \in DOMAIN projectData.audioKeys :
    LET audioKey == projectData.audioKeys[i]
    IN \/ audioKey \notin DOMAIN projectData.audioItems
       \/ "voice" \notin DOMAIN projectData.audioItems[audioKey]
       \/ ~(AllIds \subseteq DOMAIN projectData.audioItems[audioKey].voice)

\* C30: LOAD_PROJECT_FILE modifies the open project only after the
\* validation has passed: a file with a key of audioKeys missing from
\* audioItems, or with a listed item lacking voice.engineId, speakerId or
\* styleId, is rejected with false before REMOVE_ALL_AUDIO_ITEM (nothing is
\* removed, registered, saved or cleared).
C30_ValidationBeforeChange ==
  \A filePath \in FilePaths, confirm \in BOOLEAN :
  \A env \in LoadEnvs(state, lastCommandUnixMillisec, filePath, confirm) :
    LET r == LOAD_PROJECT_FILE(state, lastCommandUnixMillisec, filePath,
                               confirm, env)
    IN /\ Invalid(env.file) =>
            /\ r.value = "false"
            /\ r.st = state
            /\ r.registered = NoItems /\ r.wrote = NoFile
            /\ r.step \in {"dialog", "read", "validation"}
       /\ r.st # state => ~Invalid(env.file)

\* a load over an edited project with an item and a command was refused by
\* the validation check
C30_Witness ==
  /\ lastOp.kind = "LOAD_PROJECT_FILE" /\ ret.step = "validation"
  /\ ret.value = "false" /\ ret.errorDialog
  /\ IS_EDITED(state, lastCommandUnixMillisec)
  /\ state.items # <<>>
  /\ state.undoCommands # <<>>

\* the default preset keys of the voices other than the call's voice
OtherDefaults(c) ==
  {c.defaultPresetKeys[id] :
     id \in DOMAIN c.defaultPresetKeys \ {VoiceId(c.voice)}}

\* the key returned by a call is not another voice's default preset key,
\* unless it is the call's voice's default as well
NeverAnothersDefault(c) ==
  c.result.nextPresetKey \in OtherDefaults(c) =>
    c.result.nextPresetKey = Lookup(c.defaultPresetKeys, VoiceId(c.voice))

\* C31: on "changeVoice" the returned key is never the default preset key
\* of another voice (unless it is the current voice's default too): a
\* candidate that is some voice's default is replaced by the current
\* voice's default, and every other candidate is returned unchanged.
C31_ChangeVoiceKeepsOthers ==
  LET c == presetCall
      default == Lookup(c.defaultPresetKeys, VoiceId(c.voice))
  IN c.operation = "changeVoice" =>
       /\ NeverAnothersDefault(c)
       /\ c.result.nextPresetKey =
            IF c.presetKeyCandidate \in ObjectValues(c.defaultPresetKeys)
            THEN default ELSE c.presetKeyCandidate

\* C31 (amended): on "changeVoice" the returned key is never the default
\* preset key of another voice (unless it is the current voice's default
\* too): with shouldApplyDefaultPresetOnVoiceChanged the current voice's
\* default is returned whatever the candidate is; without it a candidate
\* that is some voice's default is replaced by the current voice's default
\* and every other candidate is returned unchanged.
C31_ChangeVoice ==
  LET c == presetCall
      default == Lookup(c.defaultPresetKeys, VoiceId(c.voice))
  IN c.operation = "changeVoice" =>
       /\ NeverAnothersDefault(c)
       /\ c.result.nextPresetKey =
            IF \/ c.experimentalSetting.shouldApplyDefaultPresetOnVoiceChanged
               \/ c.presetKeyCandidate \in ObjectValues(c.defaultPresetKeys)
            THEN default ELSE c.presetKeyCandidate

\* a voice change that carries the other voice's default preset
C31_Witness ==
  /\ presetCall.operation = "changeVoice"
  /\ ~presetCall.experimentalSetting.shouldApplyDefaultPresetOnVoiceChanged
  /\ presetCall.presetKeyCandidate = "p1"
  /\ presetCall.presetKeyCandidate \in OtherDefaults(presetCall)
  /\ Lookup(presetCall.defaultPresetKeys, VoiceId(presetCall.voice)) = "p2"
  /\ presetCall.result.nextPresetKey = "p2"

\* every listed preset key has an item, and no key is listed twice
StoreValid(st) ==
  /\ \A i \in DOMAIN st.presetKeys : st.presetKeys[i] \in DOMAIN st.presetItems
  /\ \A i, j \in DOMAIN st.presetKeys :
       st.presetKeys[i] = st.presetKeys[j] => i = j

\* C32: from a preset store in which every listed key has an item and no
\* key is listed twice, every series of addPreset, updatePreset and
\* deletePreset run one after the other keeps that; addPreset lists the
\* new key first, updatePreset lists the key (first) only if it was not
\* listed, and deletePreset removes the key from the list and the items.
C32_PresetStoreInvariant ==
  LET st == presetState
  IN /\ StoreValid(st)
     /\ \A newKey \in FreshKeys, presetData \in PresetData :
          LET r == addPreset(st, newKey, presetData)
          IN /\ StoreValid(r)
             /\ r.presetKeys = <<newKey>> \o st.presetKeys
             /\ r.presetItems = Spread(st.presetItems, newKey, presetData)
     /\ \A presetKey \in PresetKeys, presetData \in PresetData :
          LET r == updatePreset(st, presetKey, presetData)
          IN /\ StoreValid(r)
             /\ r.presetKeys = IF Includes(st.presetKeys, presetKey)
                               THEN st.presetKeys
                               ELSE <<presetKey>> \o st.presetKeys
             /\ r.presetItems = Spread(st.presetItems, presetKey, presetData)
     /\ \A presetKey \in PresetKeys :
          LET r == deletePreset(st, presetKey)
          IN /\ StoreValid(r)
             /\ ~Includes(r.presetKeys, presetKey)
             /\ presetKey \notin DOMAIN r.presetItems
             /\ r.presetKeys = FilterOut(st.presetKeys, presetKey)
             /\ \A k \in DOMAIN st.presetItems \ {presetKey} :
                  k \in DOMAIN r.presetItems
                    /\ r.presetItems[k] = st.presetItems[k]

\* an update of a preset that had an item but was not listed, in a store
\* that lists another preset
C32_Witness ==
  /\ presetTasks.done # <<>>
  /\ presetTasks.done[1].kind = "updatePreset"
  /\ ~presetTasks.done[1].included
  /\ presetTasks.done[1].presetData = "b"
  /\ Len(presetState.presetKeys) = 2
  /\ Head(presetState.presetKeys) = presetTasks.done[1].presetKey
  /\ presetState.presetItems[presetTasks.done[1].presetKey] = "b"
  /\ Cardinality(DOMAIN presetState.presetItems) = 3

\* the store shows what a completed action did
Reflects(done, st) ==
  IF done.kind = "deletePreset"
  THEN ~Includes(st.presetKeys, done.presetKey)
         /\ done.presetKey \notin DOMAIN st.presetItems
  ELSE Includes(st.presetKeys, done.presetKey)
         /\ done.presetKey \in DOMAIN st.presetItems
         /\ st.presetItems[done.presetKey] = done.presetData

\* C33: under every interleaving of two preset actions that run
\* concurrently, no update is lost: once both have completed, the store
\* shows what each of them did (for actions on two different presets; two
\* addPreset calls leave both new keys listed).
C33_NoLostUpdate ==
  (/\ Len(presetTasks.done) = 2
   /\ presetTasks.done[1].presetKey # presetTasks.done[2].presetKey)
    => /\ Reflects(presetTasks.done[1], presetState)
       /\ Reflects(presetTasks.done[2], presetState)

\* the default preset key of the i-th voice in store st
DefaultOf(st, i) == Lookup(st.defaultPresetKeys, VoiceId(GET_ALL_VOICES[i]))

\* C34: after createAllDefaultPreset has run alone, every voice of
\* GET_ALL_VOICES has a default preset key that is listed in presetKeys;
\* a voice whose default preset was listed keeps it, every other voice
\* gets exactly one new preset, and a second run creates no preset.
C34_CreateAllDefaultPreset ==
  LET st == presetState
  IN \A newKeys \in NewKeys :
       Cardinality(Missing(st)) <= Len(newKeys) =>
         LET r == createAllDefaultPreset(st, newKeys)
             created == {r.presetKeys[i] : i \in DOMAIN r.presetKeys}
                          \ {st.presetKeys[i] : i \in DOMAIN st.presetKeys}
             again == createAllDefaultPreset(r, <<>>)
         IN /\ \A i \in DOMAIN GET_ALL_VOICES :
                 /\ VoiceId(GET_ALL_VOICES[i]) \in DOMAIN r.defaultPresetKeys
                 /\ Includes(r.presetKeys, DefaultOf(r, i))
                 /\ i \notin Missing(st) => DefaultOf(r, i) = DefaultOf(st, i)
                 /\ i \in Missing(st) => DefaultOf(r, i) \in created
            /\ \A i, j \in Missing(st) :
                 DefaultOf(r, i) = DefaultOf(r, j) => i = j
            /\ Len(r.presetKeys) = Len(st.presetKeys) + Cardinality(Missing(st))
            /\ Cardinality(created) = Cardinality(Missing(st))
            /\ StoreValid(st) => StoreValid(r)
            /\ again = r

\* createAllDefaultPreset has run in a store where the first voice's
\* default preset was listed and the second voice's was not
C34_Witness ==
  /\ presetTasks.done # <<>>
  /\ presetTasks.done[1].kind = "createAllDefaultPreset"
  /\ Len(presetState.presetKeys) = 2
  /\ DefaultOf(presetState, 1) = presetState.presetKeys[2]
  /\ DefaultOf(presetState, 2) = presetState.presetKeys[1]
  /\ presetState.presetItems[DefaultOf(presetState, 1)] = "a"
  /\ presetState.presetItems[DefaultOf(presetState, 2)] = VOICE_NAME(GET_ALL_VOICES[2])

\* key sequences of patches: object keys (plain, with "/", with "~", the
\* empty key) and array indices, up to two keys long
PatchKeys == Keys \cup {<<"~">>, <<"~", "0">>, <<"~", "1">>, <<>>, <<"0">>}

PatchPaths ==
  {<<>>} \cup {<<k>> : k \in PatchKeys} \cup {<<j, k>> : j, k \in PatchKeys}

\* the operation addresses the location the patch's key sequence names
SameLocation(patch) ==
  LET operation == patchToOperation(patch)
  IN /\ operation.op = patch.op
     /\ operation.value = patch.value
     /\ PointerTokens(operation.path) = patch.path

\* C35: patchToOperation maps every recorded patch to an operation with
\* the same op and value whose path addresses the location the patch's
\* key sequence names, for every key sequence, keys with "/" or "~" and
\* the empty sequence included.
C35_PatchToOperation ==
  /\ \A recipe \in Completing(state) :
       LET produced == produceWithPatches(state, recipe, immerShrink)
       IN /\ \A i \in DOMAIN produced.patches :
               SameLocation(produced.patches[i])
          /\ \A i \in DOMAIN produced.inversePatches :
               SameLocation(produced.inversePatches[i])
  /\ \A path \in PatchPaths : SameLocation(Patch("add", path, "a"))

====
